---- MODULE Spec2Model ----
(***************************************************************************)
(* Model of the web-scraper: the store (database/database.py), the         *)
(* scheduler jobs (scheduler.py), the rate-limited, retried fetch          *)
(* (utils/helpers.py, scrapers/base_scraper.py), the adapters' pagination  *)
(* loop, extraction and filters (scrapers/*_scraper.py), the text helpers  *)
(* format_price and extract_rating, and the scraper factory.               *)
(*                                                                         *)
(* Prices are exact decimals counted in thousandths of the currency unit   *)
(* (1010 is 1.010), so the noise threshold 0.01 is 10.  Time is counted in *)
(* whole time units (seconds for the fetcher, hours for the store).        *)
(***************************************************************************)
EXTENDS Integers, Sequences, FiniteSets, TLC

VARIABLES
    products,        \* table products: sequence of rows, a row's id is its index
    price_history,   \* table price_history: set of rows
    now,             \* the clock read by datetime.utcnow(), func.now(), time.time()
    catalog,         \* the records the scraped sites can yield (fixed by Init)
    tx,              \* the database session of the save_products call under way
    changes,         \* what the get_price_changes call of the last step returned
    sessions,        \* table scraping_sessions: set of rows
    email_logs,      \* table email_logs: set of rows
    _scrapers,       \* ScraperFactory._scrapers: site name -> scraper class
    running,         \* ScrapingScheduler.running
    sweep,           \* the position of the running _daily_scraping_job
    lastRun,         \* observation of the last finished job execution
    last_called,     \* the cell last_called[0] of the rate_limit closure
    fetch,           \* per task: the position of its _make_request call
    gets,            \* the HTTP GETs issued so far, in order
    search,          \* the position of a search_products call
    call             \* a call of a function without side effects: arguments, result

storeVars == <<products, price_history, tx, changes>>
schedVars == <<sessions, email_logs, running, sweep, lastRun>>
fetchVars == <<last_called, fetch, gets>>
vars == <<products, price_history, now, catalog, tx, changes, sessions, email_logs,
          running, sweep, lastRun, last_called, fetch, gets, search, call, _scrapers>>

(***************************************************************************)
(* Bounds of the model.                                                    *)
(***************************************************************************)
MaxProducts == 2
MaxHistory == 4
MaxBatch == 2
MaxTime == 2

(***************************************************************************)
(* Helpers.                                                                *)
(***************************************************************************)
Abs(x) == IF x < 0 THEN -x ELSE x

Max(S) == CHOOSE m \in S : \A y \in S : y <= m

Min(S) == CHOOSE m \in S : \A y \in S : m <= y

RECURSIVE SeqsUpTo(_, _)
SeqsUpTo(S, n) ==
    IF n = 0 THEN {<<>>}
    ELSE LET shorter == SeqsUpTo(S, n - 1)
         IN shorter \cup {Append(q, e) : q \in {s \in shorter : Len(s) = n - 1}, e \in S}

(***************************************************************************)
(* The incoming records (product_data dictionaries).  "" is an absent url  *)
(* or external_id.                                                         *)
(***************************************************************************)
(***************************************************************************)
(* ScraperFactory._scrapers as the class defines it.  A site name is a     *)
(* sequence of characters.                                                 *)
(***************************************************************************)
BuiltinScrapers ==
    (<<"a", "m", "a", "z", "o", "n">> :> "AmazonScraper") @@
    (<<"e", "b", "a", "y">> :> "EbayScraper") @@
    (<<"m", "e", "r", "c", "a", "d", "o", "l", "i", "v", "r", "e">> :> "MercadoLivreScraper") @@
    (<<"m", "e", "r", "c", "a", "d", "o", "_", "l", "i", "v", "r", "e">> :> "MercadoLivreScraper") @@
    (<<"m", "l">> :> "MercadoLivreScraper")

Urls == {"", "u1", "u2"}
Sites == {"amazon", "ebay"}
ExternalIds == {"", "e1"}
Prices == {1000, 1010, 1025}

ProductData == [url : Urls, site : Sites, external_id : ExternalIds, price : Prices]

\* Records of two listings of one site, told apart by url: one is offered at every
\* price, the other at a steady price.
PriceCatalog ==
    {d \in ProductData :
        /\ d.site = "amazon"
        /\ d.external_id = ""
        /\ d.url = "u1" \/ (d.url = "u2" /\ d.price = 1000)}

\* Records with every combination of url, site and external id, at one price.
IdentityCatalog == {d \in ProductData : d.price = 1000}


\* The minimum difference that counts as a price change: 0.01.
NoiseThreshold == 10

(***************************************************************************)
(* DatabaseManager._find_existing_product: the id of the stored product    *)
(* the record resolves to, 0 for None.  Query.first() on a query without   *)
(* ORDER BY returns one of the matching rows.                              *)
(***************************************************************************)
find_by_external_id_first(db, product_data) ==
    LET by_url == {i \in 1..Len(db.products) : db.products[i].url = product_data.url}
        by_external_id == {i \in 1..Len(db.products) :
                              /\ db.products[i].external_id = product_data.external_id
                              /\ db.products[i].site = product_data.site}
    IN IF product_data.external_id # "" /\ product_data.site # ""
              /\ by_external_id # {}
           THEN Min(by_external_id)
       ELSE IF product_data.url # "" /\ by_url # {}
           THEN Min(by_url)
       ELSE 0

_find_existing_product(db, product_data) ==
    LET by_url == {i \in 1..Len(db.products) : db.products[i].url = product_data.url}
        by_external_id == {i \in 1..Len(db.products) :
                              /\ db.products[i].external_id = product_data.external_id
                              /\ db.products[i].site = product_data.site}
    IN IF product_data.url # "" /\ by_url # {}
           THEN Min(by_url)
       ELSE IF product_data.external_id # "" /\ product_data.site # ""
                  /\ by_external_id # {}
           THEN Min(by_external_id)
       ELSE 0

\* The id a new price_history row gets (an integer primary key: the largest + 1).
NextHistoryId(history) == IF history = {} THEN 1 ELSE Max({h.id : h \in history}) + 1

\* PriceHistory(product_id=..., price=...), recorded_at defaulting to func.now().
PriceHistory(history, product_id, price) ==
    [id |-> NextHistoryId(history), product_id |-> product_id, price |-> price,
     recorded_at |-> now]

\* create_product_from_dict, with the id the flush assigns.
create_product_from_dict(db, product_data) ==
    [id |-> Len(db.products) + 1, url |-> product_data.url, site |-> product_data.site,
     external_id |-> product_data.external_id, current_price |-> product_data.price]

\* A comparison that also counts a move of exactly the threshold.
PriceChangedInclusive(old_price, new_price) == Abs(old_price - new_price) >= NoiseThreshold

\* Whether a price moved by more than the noise threshold.
PriceChanged(old_price, new_price) == Abs(old_price - new_price) > NoiseThreshold

(***************************************************************************)
(* DatabaseManager._update_existing_product on the session's working copy. *)
(***************************************************************************)
_update_existing_product(db, id, product_data) ==
    LET old_price == db.products[id].current_price
        new_price == product_data.price
    IN [products |-> [db.products EXCEPT ![id].current_price = new_price],
        price_history |->
            IF PriceChanged(old_price, new_price)
                THEN db.price_history \cup {PriceHistory(db.price_history, id, new_price)}
                ELSE db.price_history]

\* The else branch of the loop of save_products: a new product and its first row.
InsertNewProduct(db, product_data) ==
    LET new_product == create_product_from_dict(db, product_data)
    IN [products |-> Append(db.products, new_product),
        price_history |-> db.price_history \cup
            {PriceHistory(db.price_history, new_product.id, new_product.current_price)}]

\* One iteration of the loop of save_products.
SaveOne(db, product_data) ==
    LET existing_product == _find_existing_product(db, product_data)
    IN IF existing_product # 0
           THEN _update_existing_product(db, existing_product, product_data)
           ELSE InsertNewProduct(db, product_data)

\* The session's working copy after the first n records of the batch.
RECURSIVE SaveLoop(_, _, _)
SaveLoop(db, products_data, n) ==
    IF n = 0 THEN db
    ELSE SaveOne(SaveLoop(db, products_data, n - 1), products_data[n])

\* What one iteration did: the record, what _find_existing_product returned for
\* it, and the session's tables before and after the iteration.
Observed(db, product_data) ==
    [product_data |-> product_data,
     existing |-> _find_existing_product(db, product_data),
     before |-> db,
     after |-> SaveOne(db, product_data)]

\* The product an iteration appended to saved_products.
SavedId(entry) ==
    IF entry.existing # 0 THEN entry.existing ELSE Len(entry.after.products)

\* A rollback that leaves the flushed work in place.
RollbackKeepsWork(committed, working) == working

\* db.rollback(), and the close of a session that was not committed.
Rollback(committed, working) == committed

\* db.commit().
Commit(committed, working) == working

(***************************************************************************)
(* DatabaseManager.save_products as one call.  fail = 0: no error; fail =  *)
(* k in 1..Len(products_data): the query or flush for record k raises,     *)
(* after the records before it were applied to the session; fail =         *)
(* Len(products_data) + 1: db.commit() raises.  err is the class of the    *)
(* error: a SQLAlchemyError is rolled back by the except clause, any other *)
(* error leaves the with block, whose exit closes the session and so       *)
(* discards the uncommitted work as well.                                  *)
(***************************************************************************)
Errors == {"SQLAlchemyError", "Exception"}

NoError == "none"

save_products(committed, products_data, fail, err) ==
    LET n == IF fail = 0 THEN Len(products_data) ELSE fail - 1
        working == SaveLoop(committed, products_data, n)
        final == IF fail = 0 THEN Commit(committed, working)
                 ELSE Rollback(committed, working)
    IN [products |-> final.products,
        price_history |-> final.price_history,
        raised |-> IF fail = 0 THEN NoError ELSE err,
        saved_products |->
            IF fail = 0
                THEN [i \in 1..n |->
                        SavedId(Observed(SaveLoop(committed, products_data, i - 1),
                                         products_data[i]))]
                ELSE <<>>]

\* The store stays within the bounds of the model.
WithinBounds(db) ==
    /\ Len(db.products) <= MaxProducts
    /\ Cardinality(db.price_history) <= MaxHistory

(***************************************************************************)
(* The same call, one step per iteration of its loop.  tx is the database  *)
(* session of the call: the committed tables it started from, its working  *)
(* copy of the tables and, while the loop runs, what each iteration did;   *)
(* products and price_history are the committed tables.  The records of    *)
(* the batch are drawn from the catalog as the loop reaches them.          *)
(***************************************************************************)
Committed == [products |-> products, price_history |-> price_history]

NoTx == [pc |-> "idle"]

NoChanges == [asked |-> FALSE]

\* with self.get_session() as db
BeginSave ==
    /\ tx.pc # "loop"
    /\ tx' = [pc |-> "loop", start |-> Committed, working |-> Committed, log |-> <<>>]
    /\ changes' = NoChanges
    /\ UNCHANGED <<call, products, price_history, now, catalog, _scrapers, schedVars, fetchVars, search>>

\* One iteration of the loop.
SaveRecord ==
    /\ tx.pc = "loop"
    /\ Len(tx.log) < MaxBatch
    /\ \E product_data \in catalog :
         LET after == SaveOne(tx.working, product_data)
         IN /\ WithinBounds(after)
            /\ tx' = [tx EXCEPT !.working = after,
                                !.log = Append(@, Observed(tx.working, product_data))]
    /\ UNCHANGED <<call, products, price_history, now, catalog, _scrapers, changes, schedVars,
                   fetchVars, search>>

\* The end of the loop: db.commit() succeeds, the call returns saved_products.
SaveCommit ==
    /\ tx.pc = "loop"
    /\ LET final == Commit(Committed, tx.working)
       IN /\ products' = final.products
          /\ price_history' = final.price_history
    /\ tx' = [pc |-> "done", raised |-> NoError, start |-> tx.start,
              working |-> tx.working,
              saved_products |-> [i \in 1..Len(tx.log) |-> SavedId(tx.log[i])]]
    /\ UNCHANGED <<call, now, catalog, _scrapers, changes, schedVars, fetchVars, search>>

\* A query, a flush or the commit raises: the except clause (or the close of
\* the session) discards the work and the error reaches the caller.
SaveFail ==
    /\ tx.pc = "loop"
    /\ \E err \in Errors :
         LET final == Rollback(Committed, tx.working)
         IN /\ products' = final.products
            /\ price_history' = final.price_history
            /\ tx' = [pc |-> "done", raised |-> err, start |-> tx.start,
                      working |-> tx.working, saved_products |-> <<>>]
    /\ UNCHANGED <<call, now, catalog, _scrapers, changes, schedVars, fetchVars, search>>

\* Time passes.
Tick ==
    /\ now < MaxTime
    /\ tx.pc # "loop"
    /\ now' = now + 1
    /\ tx' = NoTx
    /\ changes' = NoChanges
    /\ UNCHANGED <<call, products, price_history, catalog, _scrapers, schedVars, fetchVars, search>>

(***************************************************************************)
(* DatabaseManager.get_price_changes(hours).  For a recent row, previous   *)
(* is the first row of the rows of the same product recorded strictly      *)
(* earlier, latest first: when several rows share that latest recorded_at, *)
(* the database returns any one of them.                                   *)
(***************************************************************************)
Windows == {1, 2}

NoRow == [id |-> 0]

Recent(history, cutoff_date) == {h \in history : h.recorded_at >= cutoff_date}

EarlierOrSame(history, change) ==
    {h \in history : h.product_id = change.product_id /\ h.recorded_at <= change.recorded_at}

Earlier(history, change) ==
    {h \in history : h.product_id = change.product_id /\ h.recorded_at < change.recorded_at}

PreviousCandidates(history, change) ==
    {h \in Earlier(history, change) :
        \A g \in Earlier(history, change) : g.recorded_at <= h.recorded_at}

\* What .first() can return for a recent row: NoRow (None) when no row is earlier.
FirstPrevious(history, change) ==
    IF PreviousCandidates(history, change) = {} THEN {NoRow}
    ELSE PreviousCandidates(history, change)

\* Every way the database can answer the previous-row queries of the loop.
RECURSIVE PreviousChoices(_, _)
PreviousChoices(history, rows) ==
    IF rows = {} THEN {<<>>}
    ELSE LET c == CHOOSE r \in rows : TRUE
         IN {(c :> p) @@ f : p \in FirstPrevious(history, c),
                             f \in PreviousChoices(history, rows \ {c})}

get_price_changes(db, cutoff_date, previous) ==
    {<<db.products[change.product_id], previous[change], change>> :
        change \in {c \in Recent(db.price_history, cutoff_date) :
                       /\ previous[c] # NoRow
                       /\ PriceChanged(previous[c].price, c.price)
                       /\ c.product_id \in 1..Len(db.products)}}

GetPriceChanges ==
    /\ tx.pc # "loop"
    /\ \E hours \in Windows :
      LET db == [products |-> products, price_history |-> price_history]
          cutoff_date == now - hours
          recent == Recent(price_history, cutoff_date)
      IN \E previous \in PreviousChoices(price_history, recent) :
           /\ changes' = [asked |-> TRUE, cutoff_date |-> cutoff_date,
                          result |-> get_price_changes(db, cutoff_date, previous)]
           /\ tx' = NoTx
           /\ UNCHANGED <<call, products, price_history, now, catalog, _scrapers, schedVars,
                          fetchVars, search>>

(***************************************************************************)
(* The store alone: batches are saved, time passes, changes are queried.   *)
(***************************************************************************)
\* The parts of the program a specification leaves at rest.
NoSched ==
    /\ sessions = {}
    /\ email_logs = {}
    /\ running = TRUE
    /\ sweep = [pc |-> "idle"]
    /\ lastRun = [job |-> "none"]

NoFetch ==
    /\ last_called = 0
    /\ fetch = <<>>
    /\ gets = <<>>

NoSearch == search = [pc |-> "idle"]

NoCall == call = [pc |-> "idle"]

InitOther == NoSched /\ NoFetch /\ NoSearch /\ NoCall

InitStore ==
    /\ products = <<>>
    /\ price_history = {}
    /\ now = 0
    /\ _scrapers = BuiltinScrapers
    /\ catalog = PriceCatalog
    /\ tx = NoTx
    /\ changes = NoChanges
    /\ InitOther

NextStore ==
    \/ BeginSave
    \/ SaveRecord
    \/ SaveCommit
    \/ SaveFail
    \/ Tick
    \/ GetPriceChanges

SpecStore == InitStore /\ [][NextStore]_vars

(***************************************************************************)
(* save_products alone, fed with records that share urls, sites and        *)
(* external ids.                                                           *)
(***************************************************************************)
InitIdentity ==
    /\ products = <<>>
    /\ price_history = {}
    /\ now = 0
    /\ _scrapers = BuiltinScrapers
    /\ catalog = IdentityCatalog
    /\ tx = NoTx
    /\ changes = NoChanges
    /\ InitOther

NextIdentity ==
    \/ BeginSave
    \/ SaveRecord
    \/ SaveCommit
    \/ SaveFail

SpecIdentity == InitIdentity /\ [][NextIdentity]_vars

(***************************************************************************)
(*                         Properties of the store                         *)
(***************************************************************************)
\* The rows of a listing in a copy of the tables.
RowsOf(db, id) == {h \in db.price_history : h.product_id = id}

\* The iterations the session has run, and the tables they left.
TxLog == IF tx.pc = "loop" THEN tx.log ELSE <<>>

\* C1: for every record passed to save_products: when it resolves to no stored
\* listing, exactly one listing is inserted and exactly one price_history row is
\* appended, with the record's price; when it resolves to a stored listing, no
\* listing is inserted and one row is appended if the stored price and the incoming
\* price differ by more than 0.01, none otherwise.  So the same payload upserted
\* twice in a row, new the first time, leaves its listing with exactly one row.
C1_UpsertHistoryRows ==
    /\ \A i \in 1..Len(TxLog) :
         LET e == TxLog[i]
             d == e.product_data
             added == e.after.price_history \ e.before.price_history
         IN /\ e.before.price_history \subseteq e.after.price_history
            /\ IF e.existing = 0
                   THEN /\ Len(e.after.products) = Len(e.before.products) + 1
                        /\ Cardinality(added) = 1
                        /\ \A h \in added :
                             h.price = d.price /\ h.product_id = Len(e.after.products)
                   ELSE /\ Len(e.after.products) = Len(e.before.products)
                        /\ LET old == e.before.products[e.existing].current_price
                           IN IF Abs(old - d.price) > NoiseThreshold
                                  THEN /\ Cardinality(added) = 1
                                       /\ \A h \in added :
                                            h.price = d.price /\ h.product_id = e.existing
                                  ELSE added = {}
    /\ \A i \in 1..(Len(TxLog) - 1) :
         (TxLog[i].existing = 0 /\ TxLog[i + 1].product_data = TxLog[i].product_data)
             => Cardinality(RowsOf(TxLog[i + 1].after, SavedId(TxLog[i + 1]))) = 1

\* C1 witness: a batch held the same payload twice; the first was new, the second
\* resolved to the listing the first inserted, which is left with one row.
C1_Witness ==
    /\ tx.pc = "loop"
    /\ Len(tx.log) = 2
    /\ tx.log[1].product_data = tx.log[2].product_data
    /\ tx.log[1].existing = 0
    /\ tx.log[2].existing = Len(tx.log[1].after.products)
    /\ Cardinality(RowsOf(tx.working, tx.log[2].existing)) = 1

\* No two listings of a copy of the tables share a non-empty url or a (site,
\* external_id) pair with both parts non-empty.
UniqueListings(db) ==
    \A i, j \in 1..Len(db.products) :
        i # j =>
            /\ db.products[i].url # "" => db.products[i].url # db.products[j].url
            /\ (db.products[i].site # "" /\ db.products[i].external_id # "") =>
                   ~ (/\ db.products[i].site = db.products[j].site
                      /\ db.products[i].external_id = db.products[j].external_id)

\* C2: after any sequence of batches no two stored listings share a non-empty url or
\* a (site, external_id) pair with both parts non-empty; a record whose url is the
\* url of a stored listing resolves to that listing, whatever its site and external
\* id; two records of a batch with the same (site, external_id) and no url resolve
\* to one listing.
C2_OneListingPerKey ==
    /\ UniqueListings(Committed)
    /\ tx.pc = "loop" => UniqueListings(tx.working)
    /\ \A i \in 1..Len(TxLog) :
         LET e == TxLog[i]
             d == e.product_data
         IN \A k \in 1..Len(e.before.products) :
              (d.url # "" /\ e.before.products[k].url = d.url) => e.existing = k
    /\ \A i, j \in 1..Len(TxLog) :
         LET di == TxLog[i].product_data
             dj == TxLog[j].product_data
         IN (/\ di.url = "" /\ dj.url = ""
             /\ di.site = dj.site /\ di.external_id = dj.external_id
             /\ di.site # "" /\ di.external_id # "")
                => SavedId(TxLog[i]) = SavedId(TxLog[j])

\* C2 witness: a record resolved by its url to a listing stored under another site
\* and external id, while another stored listing carried the record's site and
\* external id.
C2_Witness ==
    /\ tx.pc = "loop"
    /\ \E i \in 1..Len(tx.log) :
         LET e == tx.log[i]
             d == e.product_data
         IN /\ e.existing # 0
            /\ e.before.products[e.existing].url = d.url
            /\ e.before.products[e.existing].site # d.site
            /\ \E k \in 1..Len(e.before.products) :
                 /\ k # e.existing
                 /\ d.external_id # ""
                 /\ e.before.products[k].site = d.site
                 /\ e.before.products[k].external_id = d.external_id

\* C3: the batch is atomic.  While the call runs nothing of it is in the committed
\* tables; when an error is raised the committed tables are those of before the call
\* and the error reaches the caller; when no error is raised the committed tables
\* hold the work of every record of the batch.
C3_BatchAtomic ==
    /\ tx.pc = "loop" => Committed = tx.start
    /\ (tx.pc = "done" /\ tx.raised # NoError) =>
           /\ Committed = tx.start
           /\ tx.raised \in Errors
           /\ tx.saved_products = <<>>
    /\ (tx.pc = "done" /\ tx.raised = NoError) =>
           /\ Committed = tx.working
           /\ \A i \in 1..Len(tx.saved_products) :
                tx.saved_products[i] \in 1..Len(products)

\* C3 witness: an error was raised after the session had inserted a listing and
\* appended rows for two records.
C3_Witness ==
    /\ tx.pc = "done"
    /\ tx.raised = "SQLAlchemyError"
    /\ Len(tx.working.products) > Len(tx.start.products)
    /\ Cardinality(tx.working.price_history) >= Cardinality(tx.start.price_history) + 2
    /\ Committed = tx.start

\* C4: every tuple (product, previous, change) returned by get_price_changes has
\* change recorded within the window, previous a row of the same listing recorded
\* strictly earlier with no row of the listing strictly between the two, and prices
\* that differ by more than 0.01; a listing with a single row is never returned.
C4_PriceChangeTuples ==
    changes.asked =>
        /\ \A t \in changes.result :
             LET product == t[1]
                 previous == t[2]
                 change == t[3]
             IN /\ change \in price_history
                /\ previous \in price_history
                /\ change.recorded_at >= changes.cutoff_date
                /\ change.recorded_at <= now
                /\ product \in {products[i] : i \in 1..Len(products)}
                /\ change.product_id = product.id
                /\ previous.product_id = product.id
                /\ previous.recorded_at < change.recorded_at
                /\ ~ \E h \in price_history :
                       /\ h.product_id = product.id
                       /\ previous.recorded_at < h.recorded_at
                       /\ h.recorded_at < change.recorded_at
                /\ Abs(previous.price - change.price) > NoiseThreshold
        /\ \A i \in 1..Len(products) :
             Cardinality(RowsOf(Committed, i)) = 1 =>
                 ~ \E t \in changes.result : t[1].id = i

\* C4 witness: a query returned a tuple for a listing with three rows recorded at
\* three different times, while another listing with a single row was in the window.
C4_Witness ==
    /\ changes.asked
    /\ \E t \in changes.result :
         /\ Cardinality({h.recorded_at : h \in RowsOf(Committed, t[1].id)}) = 3
         /\ t[3].recorded_at = now
    /\ \E i \in 1..Len(products) :
         /\ Cardinality(RowsOf(Committed, i)) = 1
         /\ \A h \in RowsOf(Committed, i) : h.recorded_at >= changes.cutoff_date

(***************************************************************************)
(*                              The scheduler                              *)
(***************************************************************************)
\* except handler: catches err.  "Exception" stands for an error of any class
\* other than SQLAlchemyError (ValueError, RequestException, ...).
CatchesSameClassOnly(handler, err) == handler = err

\* What sys.exit raises in the signal handler and what a cancelled task
\* receives at its await: subclasses of BaseException, not of Exception.
Interrupts == {"SystemExit", "CancelledError"}

Catches(handler, err) ==
    \/ handler = "Exception" /\ err \notin Interrupts
    \/ handler = err

\* The except clause inside the loop over the pairs of the daily sweep.
InnerHandlerStorageOnly == "SQLAlchemyError"

InnerHandler == "Exception"

\* The except clause around the body of each of the four jobs.
JobHandler == "Exception"

Jobs == {"daily_scraping", "weekly_cleanup", "daily_summary", "price_monitoring"}

\* The fixed list of (site, search) pairs of the daily sweep.
default_searches ==
    << [site |-> "amazon", search |-> "notebook", max_results |-> 30],
       [site |-> "mercadolivre", search |-> "smartphone", max_results |-> 30],
       [site |-> "ebay", search |-> "tablet", max_results |-> 20] >>

\* The url of the listing each site offers in the sweep.
ListingUrl == [amazon |-> "u1", mercadolivre |-> "u2", ebay |-> "u3"]

SweepRecord(search_config) ==
    [url |-> ListingUrl[search_config.site], site |-> search_config.site,
     external_id |-> "", price |-> 1000]

\* What scraper.search_products can return for a pair: nothing, or the listing
\* of the site once or several times.
SearchResults(search_config) == SeqsUpTo({SweepRecord(search_config)}, MaxBatch)

\* None in a nullable column of scraping_sessions.
NoTime == -1

NextSessionId(sess) == IF sess = {} THEN 1 ELSE Max({r.id : r \in sess}) + 1

\* The row create_scraping_session inserts: the column defaults apply.
ScrapingSession(sess, session_data) ==
    [id |-> NextSessionId(sess), site |-> session_data.site,
     search_term |-> session_data.search_term,
     products_found |-> 0, products_saved |-> 0, success |-> FALSE,
     error_message |-> "", started_at |-> now, completed_at |-> NoTime,
     duration_seconds |-> NoTime]

create_scraping_session(sess, session_data) ==
    sess \cup {ScrapingSession(sess, session_data)}

\* update_scraping_session with the updates of the daily sweep.
update_scraping_session(sess, session_id, updates) ==
    {IF r.id = session_id
        THEN [r EXCEPT !.products_found = updates.products_found,
                       !.products_saved = updates.products_saved,
                       !.success = updates.success,
                       !.completed_at = updates.completed_at,
                       !.duration_seconds = updates.completed_at - r.started_at]
        ELSE r : r \in sess}

(***************************************************************************)
(* One iteration of the loop over default_searches.  fault is the call     *)
(* that raises in this iteration ("none": no call raises), fail is where   *)
(* save_products fails when it is the call that raises.                    *)
(***************************************************************************)
SweepFaults ==
    {"none", "create_scraper", "search_products", "create_scraping_session",
     "save_products", "update_scraping_session"}

\* The class of the error a faulty call raises.
FaultError(fault) ==
    CASE fault = "none" -> NoError
      [] fault \in {"create_scraper", "search_products"} -> "Exception"
      [] OTHER -> "SQLAlchemyError"

scrape_pair(db, sess, search_config, products_data, fault, fail) ==
    LET session_data == [site |-> search_config.site,
                         search_term |-> search_config.search]
        session == ScrapingSession(sess, session_data)
        created == create_scraping_session(sess, session_data)
        saved == save_products(db, products_data, fail, FaultError(fault))
        saved_db == [products |-> saved.products, price_history |-> saved.price_history]
        updated == update_scraping_session(created, session.id,
                       [products_found |-> Len(products_data),
                        products_saved |-> Len(saved.saved_products),
                        success |-> TRUE, completed_at |-> now])
        quiet == [db |-> db, sessions |-> sess, raised |-> FaultError(fault),
                  session_id |-> 0, found |-> 0, collected |-> 0]
    IN CASE fault \in {"create_scraper", "search_products", "create_scraping_session"} ->
              quiet
         [] fault = "none" /\ products_data = <<>> -> quiet
         [] fault = "save_products" ->
              [db |-> saved_db, sessions |-> created, raised |-> saved.raised,
               session_id |-> session.id, found |-> 0, collected |-> 0]
         [] fault = "update_scraping_session" ->
              [db |-> saved_db, sessions |-> created, raised |-> FaultError(fault),
               session_id |-> session.id, found |-> 0, collected |-> 0]
         [] OTHER ->
              [db |-> saved_db, sessions |-> updated, raised |-> NoError,
               session_id |-> session.id, found |-> Len(products_data),
               collected |-> Len(products_data)]

\* The bound on the table scraping_sessions: a sweep starts only when its
\* sessions still fit.
MaxSessions == 3

NoRun == [job |-> "none"]

\* What a finished execution of a job looked like: the status line it wrote
\* with log_scheduler_job (logged counts them), the error its body raised,
\* the error that left the job function, and the sessions it created.
RunRecord(job, status, raised, attempted) ==
    [job |-> job, status |-> status, raised |-> raised,
     escaped |-> IF status = "none" THEN raised ELSE NoError,
     logged |-> IF status = "none" THEN 0 ELSE 1,
     attempted |-> attempted,
     created |-> {attempted[k].session_id : k \in 1..Len(attempted)} \ {0}]

\* The end of a job body that raised err: the except clause of the job logs
\* FAILED; an error it does not catch leaves the job function.
JobStatus(err) ==
    IF err = NoError THEN "COMPLETED"
    ELSE IF Catches(JobHandler, err) THEN "FAILED" ELSE "none"

\* A job fires at its trigger while the scheduler runs; APScheduler runs at
\* most one instance of a job at a time.
CanFire(job) ==
    /\ running
    /\ job = "daily_scraping" => sweep.pc = "idle"

TriggerDaily ==
    /\ CanFire("daily_scraping")
    /\ Cardinality(sessions) + Len(default_searches) <= MaxSessions
    /\ sweep' = [pc |-> "pairs", i |-> 1, all_products |-> 0, attempted |-> <<>>]
    /\ lastRun' = NoRun
    /\ UNCHANGED <<call, storeVars, now, catalog, _scrapers, sessions, email_logs, running, fetchVars, search>>

SweepPair ==
    /\ sweep.pc = "pairs"
    /\ sweep.i <= Len(default_searches)
    /\ LET search_config == default_searches[sweep.i]
       IN \E fault \in SweepFaults, products_data \in SearchResults(search_config) :
          \E fail \in 0..(Len(products_data) + 1) :
            /\ fault \in {"none", "create_scraper", "search_products"} => fail = 0
            /\ fault \in {"create_scraper", "search_products"} => products_data = <<>>
            /\ fault \in {"create_scraping_session", "save_products",
                          "update_scraping_session"} => products_data # <<>>
            /\ fault \in {"create_scraping_session", "update_scraping_session"} => fail = 0
            /\ fault = "save_products" => fail > 0
            /\ LET r == scrape_pair(Committed, sessions, search_config, products_data,
                                    fault, fail)
                   entry == [site |-> search_config.site, raised |-> r.raised,
                             found |-> r.found, session_id |-> r.session_id]
                   attempted == Append(sweep.attempted, entry)
               IN /\ products' = r.db.products
                  /\ price_history' = r.db.price_history
                  /\ sessions' = r.sessions
                  /\ IF r.raised = NoError \/ Catches(InnerHandler, r.raised)
                        THEN /\ sweep' = [sweep EXCEPT !.i = @ + 1,
                                                       !.all_products = @ + r.collected,
                                                       !.attempted = attempted]
                             /\ lastRun' = NoRun
                        ELSE /\ sweep' = [pc |-> "idle"]
                             /\ lastRun' = RunRecord("daily_scraping", JobStatus(r.raised),
                                                     r.raised, attempted)
    /\ UNCHANGED <<call, now, catalog, _scrapers, tx, changes, email_logs, running, fetchVars, search>>

\* After the loop: the report is mailed (send_product_report catches its own
\* errors) and COMPLETED is logged.
SweepFinish ==
    /\ sweep.pc = "pairs"
    /\ sweep.i > Len(default_searches)
    /\ sweep' = [pc |-> "idle"]
    /\ lastRun' = RunRecord("daily_scraping", "COMPLETED", NoError, sweep.attempted)
    /\ UNCHANGED <<call, storeVars, now, catalog, _scrapers, sessions, email_logs, running, fetchVars, search>>

(***************************************************************************)
(* DatabaseManager.cleanup_old_data(days): rows older than the cutoff are  *)
(* deleted from price_history and scraping_sessions.  The clock counts     *)
(* hours.                                                                  *)
(***************************************************************************)
HoursPerDay == 24

RetentionDays == 90

\* The deletions with a cutoff that also takes the rows at the cutoff.
cleanup_old_data_inclusive(db, sess, logs, days) ==
    LET cutoff_date == now - days * HoursPerDay
    IN [products |-> db.products,
        price_history |-> {h \in db.price_history : ~(h.recorded_at <= cutoff_date)},
        sessions |-> {r \in sess : ~(r.started_at <= cutoff_date)},
        email_logs |-> {m \in logs : ~(m.sent_at <= cutoff_date)}]

cleanup_old_data(db, sess, logs, days) ==
    LET cutoff_date == now - days * HoursPerDay
    IN [products |-> db.products,
        price_history |-> {h \in db.price_history : ~(h.recorded_at < cutoff_date)},
        sessions |-> {r \in sess : ~(r.started_at < cutoff_date)},
        email_logs |-> {m \in logs : ~(m.sent_at < cutoff_date)}]

\* _weekly_cleanup_job: the deletions commit, or the storage error of
\* cleanup_old_data is rolled back and reaches the job.
WeeklyCleanupJob ==
    /\ CanFire("weekly_cleanup")
    /\ tx.pc # "loop"
    /\ \E err \in Errors \cup {NoError} :
         LET cleaned == cleanup_old_data(Committed, sessions, email_logs, RetentionDays)
         IN /\ price_history' = IF err = NoError THEN cleaned.price_history
                                ELSE price_history
            /\ sessions' = IF err = NoError THEN cleaned.sessions ELSE sessions
            /\ email_logs' = IF err = NoError THEN cleaned.email_logs ELSE email_logs
            /\ lastRun' = RunRecord("weekly_cleanup", JobStatus(err), err, <<>>)
    /\ UNCHANGED <<call, products, now, catalog, _scrapers, tx, changes, running, sweep, fetchVars, search>>

\* _daily_summary_job: statistics and recent sessions are read and mailed.
DailySummaryJob ==
    /\ CanFire("daily_summary")
    /\ \E err \in Errors \cup {NoError} :
         /\ lastRun' = RunRecord("daily_summary", JobStatus(err), err, <<>>)
    /\ UNCHANGED <<call, storeVars, now, catalog, _scrapers, sessions, email_logs, running, sweep, fetchVars, search>>

\* _price_monitoring_job: the changes of the last 4 hours are read and mailed.
MonitoringWindow == 4

PriceMonitoringJob ==
    /\ CanFire("price_monitoring")
    /\ tx.pc # "loop"
    /\ \E err \in Errors \cup {NoError} :
         LET cutoff_date == now - MonitoringWindow
             recent == Recent(price_history, cutoff_date)
         IN \E previous \in PreviousChoices(price_history, recent) :
              /\ changes' = IF err = NoError
                              THEN [asked |-> TRUE, cutoff_date |-> cutoff_date,
                                    result |-> get_price_changes(Committed, cutoff_date,
                                                                 previous)]
                              ELSE NoChanges
              /\ lastRun' = RunRecord("price_monitoring", JobStatus(err), err, <<>>)
    /\ UNCHANGED <<call, products, price_history, now, catalog, _scrapers, tx, sessions, email_logs, running, sweep,
                   fetchVars, search>>

\* ScrapingScheduler.stop, reached from run_forever when it is interrupted
\* between two job executions.
Stop ==
    /\ running
    /\ sweep.pc = "idle"
    /\ running' = FALSE
    /\ lastRun' = NoRun
    /\ UNCHANGED <<call, storeVars, now, catalog, _scrapers, sessions, email_logs, sweep, fetchVars, search>>

InitSched ==
    /\ products = <<>>
    /\ price_history = {}
    /\ now = 0
    /\ _scrapers = BuiltinScrapers
    /\ catalog = {SweepRecord(default_searches[k]) : k \in 1..Len(default_searches)}
    /\ tx = NoTx
    /\ changes = NoChanges
    /\ InitOther

NextSched ==
    \/ TriggerDaily
    \/ SweepPair
    \/ SweepFinish
    \/ WeeklyCleanupJob
    \/ DailySummaryJob
    \/ PriceMonitoringJob
    \/ Stop

SpecSched == InitSched /\ [][NextSched]_vars

(***************************************************************************)
(*                       Properties of the scheduler                       *)
(***************************************************************************)
\* The pairs the sweep under way, or the sweep that just finished, has been through.
Attempted ==
    IF lastRun.job = "daily_scraping" THEN lastRun.attempted
    ELSE IF sweep.pc = "pairs" THEN sweep.attempted
    ELSE <<>>

\* C5: in the daily sweep an exception raised for one pair (creating the
\* adapter, searching or persisting) does not abort the sweep: the finished
\* sweep has gone through every pair of the fixed list in order, and every
\* pair that found listings and met no error of its own, also after a pair
\* that raised, has its session recorded as successful with the number found
\* and its listing stored.
C5_SweepIsolation ==
    /\ lastRun.job = "daily_scraping" => Len(lastRun.attempted) = 3
    /\ \A k \in 1..Len(Attempted) :
         /\ Attempted[k].site = default_searches[k].site
         /\ (Attempted[k].raised = "none" /\ Attempted[k].found > 0) =>
              /\ \E r \in sessions :
                   /\ r.id = Attempted[k].session_id
                   /\ r.site = default_searches[k].site
                   /\ r.search_term = default_searches[k].search
                   /\ r.success
                   /\ r.products_found = Attempted[k].found
                   /\ r.products_saved = Attempted[k].found
              /\ \E id \in 1..Len(products) :
                   /\ products[id].site = default_searches[k].site
                   /\ \E h \in price_history : h.product_id = id

\* A finished sweep whose first pair raised and whose second and third pairs
\* found listings and recorded them.
C5_Witness ==
    /\ lastRun.job = "daily_scraping"
    /\ lastRun.status = "COMPLETED"
    /\ Len(lastRun.attempted) = 3
    /\ lastRun.attempted[1].raised # "none"
    /\ lastRun.attempted[2].found > 0
    /\ lastRun.attempted[3].found > 0
    /\ \E r \in sessions : r.site = "ebay" /\ r.success

\* C6: every finished execution of a scheduled job leaves exactly one new
\* ScrapingSession, or, when it leaves no session, exactly one status line
\* as its run record.
C6_OneRunRecordPerExecution ==
    lastRun.job # "none" =>
        \/ Cardinality(lastRun.created) = 1
        \/ lastRun.created = {} /\ lastRun.logged = 1

\* C7: no exception raised in the body of a job leaves the job function, and
\* after a failed execution the scheduler still runs and every job that is
\* not executing can fire.
C7_JobErrorsContained ==
    /\ lastRun.job # "none" => lastRun.escaped = "none"
    /\ (lastRun.job # "none" /\ lastRun.raised # "none") =>
         /\ lastRun.status = "FAILED"
         /\ running
         /\ \A job \in Jobs :
              CanFire(job) \/ (job = "daily_scraping" /\ sweep.pc = "pairs")

\* The storage error of cleanup_old_data reached the cleanup job while the
\* daily sweep was under way: FAILED was logged and the scheduler runs on.
C7_Witness ==
    /\ lastRun.job = "weekly_cleanup"
    /\ lastRun.raised = "SQLAlchemyError"
    /\ lastRun.status = "FAILED"
    /\ sweep.pc = "pairs"
    /\ running

(***************************************************************************)
(*                               The fetcher                               *)
(*                                                                         *)
(* BaseScraper._make_request is decorated with @rate_limit(calls=1,        *)
(* period=2) outside and @retry(max_attempts=3, delay=1.0) inside: the     *)
(* gate of rate_limit is passed once per call, and the retry loop runs     *)
(* behind it.  The clock counts seconds here.                              *)
(***************************************************************************)
RatePeriod == 2

MaxAttempts == 3

RetryDelay == 1

Backoff == 2

\* The bounds of the fetcher: the last second of the clock and the number of
\* _make_request calls of a task.
MaxClock == 8

MaxCalls == 2

\* The tasks that call _make_request of the adapter instance.
Tasks == {1}

\* What session.get and raise_for_status can raise.
FetchErrors == {"Timeout", "HTTPError"}

IdleFetch ==
    [pc |-> "idle", call |-> 0, attempt |-> 0, current_delay |-> RetryDelay,
     wakeAt |-> 0, last_exception |-> NoError, result |-> NoError, log |-> <<>>]

\* current_delay *= backoff
NextDelayConstant(current_delay) == current_delay

NextDelay(current_delay) == current_delay * Backoff

\* left_to_wait of the gate, read when the caller enters rate_limit's wrapper.
left_to_wait == RatePeriod - (now - last_called)

\* session.get is called: the GET leaves at the current time.
IssueGet(t, f) ==
    /\ gets' = Append(gets, [at |-> now, task |-> t, call |-> f.call,
                             attempt |-> f.attempt])
    /\ fetch' = [fetch EXCEPT ![t] =
                    [f EXCEPT !.pc = "inflight",
                              !.log = Append(@, [at |-> now, done |-> NoTime,
                                                 outcome |-> "pending"])]]

\* A task calls _make_request: the gate lets it through or puts it to sleep.
Call(t) ==
    /\ fetch[t].pc \in {"idle", "returned", "raised"}
    /\ fetch[t].call < MaxCalls
    /\ LET f == [IdleFetch EXCEPT !.call = fetch[t].call + 1]
       IN IF left_to_wait > 0
             THEN /\ fetch' = [fetch EXCEPT ![t] =
                                  [f EXCEPT !.pc = "gate", !.wakeAt = now + left_to_wait]]
                  /\ gets' = gets
             ELSE IssueGet(t, f)
    /\ UNCHANGED <<call, storeVars, now, catalog, _scrapers, schedVars, last_called, search>>

\* asyncio.sleep(left_to_wait) is over: the retry loop starts.
GateWake(t) ==
    /\ fetch[t].pc = "gate"
    /\ now >= fetch[t].wakeAt
    /\ IssueGet(t, fetch[t])
    /\ UNCHANGED <<call, storeVars, now, catalog, _scrapers, schedVars, last_called, search>>

\* The GET under way answers: a response, which the retry loop returns through
\* the gate (last_called[0] is set on the way out), or an error, which the
\* retry loop keeps as last_exception; it then sleeps current_delay before the
\* next attempt, or raises last_exception after the last one.
Respond(t) ==
    /\ fetch[t].pc = "inflight"
    /\ \E outcome \in {"ok"} \cup FetchErrors :
         LET f == fetch[t]
             log == [f.log EXCEPT ![Len(f.log)] =
                        [@ EXCEPT !.done = now, !.outcome = outcome]]
         IN IF outcome = "ok"
               THEN /\ fetch' = [fetch EXCEPT ![t] =
                                    [f EXCEPT !.pc = "returned", !.result = "response",
                                              !.log = log]]
                    /\ last_called' = now
               ELSE /\ last_called' = last_called
                    /\ IF f.attempt < MaxAttempts - 1
                          THEN fetch' = [fetch EXCEPT ![t] =
                                   [f EXCEPT !.pc = "backoff",
                                             !.last_exception = outcome,
                                             !.wakeAt = now + f.current_delay,
                                             !.current_delay = NextDelay(f.current_delay),
                                             !.log = log]]
                          ELSE fetch' = [fetch EXCEPT ![t] =
                                   [f EXCEPT !.pc = "raised",
                                             !.last_exception = outcome,
                                             !.result = outcome,
                                             !.log = log]]
    /\ UNCHANGED <<call, storeVars, now, catalog, _scrapers, schedVars, gets, search>>

\* asyncio.sleep(current_delay) is over: the next attempt.
BackoffWake(t) ==
    /\ fetch[t].pc = "backoff"
    /\ now >= fetch[t].wakeAt
    /\ IssueGet(t, [fetch[t] EXCEPT !.attempt = @ + 1])
    /\ UNCHANGED <<call, storeVars, now, catalog, _scrapers, schedVars, last_called, search>>

\* A second passes: no sleeper is due, for a sleeper resumes as soon as its
\* delay has elapsed.
Advance ==
    /\ now < MaxClock
    /\ \A t \in DOMAIN fetch :
         fetch[t].pc \in {"gate", "backoff"} => now < fetch[t].wakeAt
    /\ now' = now + 1
    /\ UNCHANGED <<call, storeVars, catalog, _scrapers, schedVars, fetchVars, search>>

\* The clock has run for at least a period when the first call is made:
\* last_called[0] starts at 0.0 and time.time() counts from the epoch.
InitFetch ==
    /\ products = <<>>
    /\ price_history = {}
    /\ now = RatePeriod
    /\ _scrapers = BuiltinScrapers
    /\ catalog = {}
    /\ tx = NoTx
    /\ changes = NoChanges
    /\ NoSched
    /\ last_called = 0
    /\ fetch = [t \in Tasks |-> IdleFetch]
    /\ gets = <<>>
    /\ NoSearch
    /\ NoCall

NextFetch ==
    \/ \E t \in Tasks : Call(t)
    \/ \E t \in Tasks : GateWake(t)
    \/ \E t \in Tasks : Respond(t)
    \/ \E t \in Tasks : BackoffWake(t)
    \/ Advance

SpecFetch == InitFetch /\ [][NextFetch]_vars

C9_GetsSpaced ==
    \A i \in 1..(Len(gets) - 1) : gets[i + 1].at - gets[i].at >= 2

(***************************************************************************)
(*                         search_products: the pages                      *)
(*                                                                         *)
(* The loop of AmazonScraper.search_products (the eBay and Mercado Livre   *)
(* adapters run the same loop).  A page request ends with an error of      *)
(* _make_request or of the parsing, caught by the handler of the loop, or  *)
(* with the valid records the page yields.                                 *)
(***************************************************************************)
MaxPages == 10

\* The bound on the valid records of one page.
MaxPerPage == 2

\* The values of the filter max_results: the default 50, and small targets.
MaxResultsChoices == {0, 2, 50}

PageError == [ok |-> FALSE, yield |-> 0]

PageOutcomes == {PageError} \cup {[ok |-> TRUE, yield |-> k] : k \in 0..MaxPerPage}

\* if page > 10: break
PageCapNever(page) == FALSE

PageCapReached(page) == page > MaxPages

\* while len(products) < max_results
BelowTarget(collected, max_results) == collected < max_results

\* The cut of _apply_filters: filtered[:max_results].
Truncated(collected, max_results) == IF collected < max_results THEN collected ELSE max_results

\* search_products is called: page 1 is requested unless the target is 0.
SearchProducts ==
    /\ search.pc \in {"idle", "done"}
    /\ \E max_results \in MaxResultsChoices :
         search' = [pc |-> IF BelowTarget(0, max_results) THEN "loop" ELSE "done",
                    max_results |-> max_results, page |-> 1, products |-> 0,
                    log |-> <<>>, result |-> 0]
    /\ UNCHANGED <<call, storeVars, now, catalog, _scrapers, schedVars, fetchVars>>

\* One iteration of the loop: the page is requested and parsed.
RequestPage ==
    /\ search.pc = "loop"
    /\ \E outcome \in PageOutcomes :
         LET log == Append(search.log, [page |-> search.page,
                                        before |-> search.products,
                                        ok |-> outcome.ok, yield |-> outcome.yield])
             products_after == search.products + outcome.yield
         IN IF ~outcome.ok \/ outcome.yield = 0
               THEN search' = [search EXCEPT
                                 !.pc = "done", !.log = log,
                                 !.result = Truncated(search.products, search.max_results)]
               ELSE IF PageCapReached(search.page + 1)
                       \/ ~BelowTarget(products_after, search.max_results)
                       THEN search' = [search EXCEPT
                                         !.pc = "done", !.log = log,
                                         !.page = @ + 1, !.products = products_after,
                                         !.result = Truncated(products_after,
                                                              search.max_results)]
                       ELSE search' = [search EXCEPT
                                         !.log = log, !.page = @ + 1,
                                         !.products = products_after]
    /\ UNCHANGED <<call, storeVars, now, catalog, _scrapers, schedVars, fetchVars>>

InitSearch ==
    /\ products = <<>>
    /\ price_history = {}
    /\ now = 0
    /\ _scrapers = BuiltinScrapers
    /\ catalog = {}
    /\ tx = NoTx
    /\ changes = NoChanges
    /\ InitOther

NextSearch ==
    \/ SearchProducts
    \/ RequestPage

SpecSearch == InitSearch /\ [][NextSearch]_vars

(***************************************************************************)
(*                       Properties of the pagination                      *)
(***************************************************************************)
\* The page requests of the search_products call under way or just finished.
Requests == IF search.pc = "idle" THEN <<>> ELSE search.log

\* C10: in one search_products call the n-th request is for page n, it is made
\* only while fewer than max_results records are collected, and a request
\* after the first is made only if the page before it was fetched and
\* yielded at least one valid record; no call makes more than 10 requests,
\* and a call that still loops has made fewer than 10.
C10_Pagination ==
    /\ Len(Requests) <= 10
    /\ search.pc = "loop" => Len(Requests) < 10
    /\ \A n \in 1..Len(Requests) :
         /\ Requests[n].page = n
         /\ Requests[n].before < search.max_results
         /\ n > 1 =>
              /\ Requests[n - 1].ok
              /\ Requests[n - 1].yield >= 1
              /\ Requests[n].before = Requests[n - 1].before + Requests[n - 1].yield

\* A call that stopped at the cap: ten pages requested, each with records,
\* and the target still unmet.
C10_Witness ==
    /\ search.pc = "done"
    /\ Len(search.log) = 10
    /\ search.log[10].ok
    /\ search.log[10].yield >= 1
    /\ search.products < search.max_results

(***************************************************************************)
(*                   Functions without side effects                        *)
(*                                                                         *)
(* A call is drawn with its arguments by Init (call.pc = "args") and the   *)
(* action of the function computes its result (call.pc = "done").          *)
(***************************************************************************)
programVars == <<storeVars, now, catalog, _scrapers, schedVars, fetchVars, search>>

\* The rest of the program while a function is called on its own.
Quiet ==
    /\ products = <<>>
    /\ price_history = {}
    /\ now = 0
    /\ _scrapers = BuiltinScrapers
    /\ catalog = {}
    /\ tx = NoTx
    /\ changes = NoChanges
    /\ NoSched
    /\ NoFetch
    /\ NoSearch

\* An optional value: None, or the value v.
None == <<>>

Some(v) == <<v>>

(***************************************************************************)
(* BaseScraper._apply_filters.  Ratings are counted in tenths (48 is 4.8). *)
(***************************************************************************)
\* The bound on the length of the list that is filtered.
MaxListings == 3

FilterListings ==
    {[title |-> "a", price |-> 50, rating |-> 40, free_shipping |-> TRUE],
     [title |-> "b", price |-> 150, rating |-> 35, free_shipping |-> FALSE],
     [title |-> "c", price |-> 100, rating |-> 48, free_shipping |-> TRUE]}

Filters ==
    [min_price : {None, Some(50), Some(100)},
     max_price : {None, Some(100), Some(150)},
     min_rating : {None, Some(40)},
     free_shipping_only : {None, Some(TRUE), Some(FALSE)},
     max_results : {None, Some(0), Some(1), Some(2)}]

\* The Python slice s[:n].
SliceTo(s, n) ==
    IF n >= 0 THEN SubSeq(s, 1, IF n < Len(s) THEN n ELSE Len(s))
    ELSE SubSeq(s, 1, IF Len(s) + n > 0 THEN Len(s) + n ELSE 0)

\* The same function with the cut to max_results made before the filters.
apply_filters_cut_first(listings, filters) ==
    LET cut == IF filters.max_results # None
                  THEN SliceTo(listings, filters.max_results[1]) ELSE listings
        Keep(p) ==
            /\ filters.min_price # None => p.price >= filters.min_price[1]
            /\ filters.max_price # None => p.price <= filters.max_price[1]
            /\ filters.min_rating # None => p.rating >= filters.min_rating[1]
            /\ (filters.free_shipping_only # None /\ filters.free_shipping_only[1])
                  => p.free_shipping
    IN SelectSeq(cut, Keep)

_apply_filters(listings, filters) ==
    LET MinPrice(p) == p.price >= filters.min_price[1]
        MaxPrice(p) == p.price <= filters.max_price[1]
        MinRating(p) == p.rating >= filters.min_rating[1]
        FreeShipping(p) == p.free_shipping
        f1 == IF filters.min_price # None THEN SelectSeq(listings, MinPrice) ELSE listings
        f2 == IF filters.max_price # None THEN SelectSeq(f1, MaxPrice) ELSE f1
        f3 == IF filters.min_rating # None THEN SelectSeq(f2, MinRating) ELSE f2
        f4 == IF filters.free_shipping_only # None /\ filters.free_shipping_only[1]
                 THEN SelectSeq(f3, FreeShipping) ELSE f3
    IN IF filters.max_results # None THEN SliceTo(f4, filters.max_results[1]) ELSE f4

ApplyFilters ==
    /\ call.pc = "args"
    /\ call.fn = "_apply_filters"
    /\ call' = [pc |-> "done", fn |-> call.fn, products |-> call.products,
                filters |-> call.filters,
                result |-> _apply_filters(call.products, call.filters)]
    /\ UNCHANGED programVars

InitFilter ==
    /\ Quiet
    /\ call \in {[pc |-> "args", fn |-> "_apply_filters", products |-> ps, filters |-> fs] :
                    ps \in SeqsUpTo(FilterListings, MaxListings), fs \in Filters}

NextFilter == ApplyFilters

SpecFilter == InitFilter /\ [][NextFilter]_vars

\* The finished call of a function, if the last step finished one.
Done(fn) == call.pc = "done" /\ call.fn = fn

\* The positions of the input listings that satisfy every requested constraint.
Satisfying(listings, filters) ==
    {i \in 1..Len(listings) :
        /\ filters.min_price # <<>> => listings[i].price >= filters.min_price[1]
        /\ filters.max_price # <<>> => listings[i].price <= filters.max_price[1]
        /\ filters.min_rating # <<>> => listings[i].rating >= filters.min_rating[1]
        /\ filters.free_shipping_only = <<TRUE>> => listings[i].free_shipping}

\* C11: _apply_filters returns the input listings that satisfy every requested
\* constraint, in their input order, cut to the first max_results of them:
\* the j-th listing returned is the j-th satisfying listing of the input, and
\* the number returned is the number of satisfying listings or max_results,
\* whichever is smaller.
C11_FiltersThenCut ==
    Done("_apply_filters") =>
        LET kept == Satisfying(call.products, call.filters)
            cap == IF call.filters.max_results = <<>> THEN Cardinality(kept)
                   ELSE call.filters.max_results[1]
            n == IF Cardinality(kept) < cap THEN Cardinality(kept) ELSE cap
        IN /\ Len(call.result) = n
           /\ \A j \in 1..n :
                \E i \in kept :
                    /\ Cardinality({m \in kept : m <= i}) = j
                    /\ call.result[j] = call.products[i]

\* A call whose first listing fails a constraint and whose cap is smaller than
\* the number of listings that satisfy the constraints.
C11_Witness ==
    /\ Done("_apply_filters")
    /\ call.filters.max_results = <<1>>
    /\ call.filters.min_rating = <<40>>
    /\ Len(call.products) = 3
    /\ call.products[1].rating < 40
    /\ Cardinality(Satisfying(call.products, call.filters)) = 2
    /\ call.result = <<call.products[2]>>

(***************************************************************************)
(* BaseScraper._validate_product and the loop over the elements of a page  *)
(* in AmazonScraper._extract_products_from_page (the other adapters run    *)
(* the same loop).  A url is a sequence of characters.                     *)
(***************************************************************************)
\* The bound on the number of product elements of a page.
MaxElements == 3

HttpPrefix == <<"h", "t", "t", "p", ":", "/", "/">>

HttpsPrefix == <<"h", "t", "t", "p", "s", ":", "/", "/">>

\* str.startswith
StartsWith(s, prefix) ==
    /\ Len(s) >= Len(prefix)
    /\ SubSeq(s, 1, Len(prefix)) = prefix

\* What _parse_product_element can do with an element: raise, return None, or
\* return a record; the records are a valid one per scheme, and records with
\* one field missing or wrong.
ParsedRecords ==
    {[title |-> "t1", price |-> 1999, url |-> HttpsPrefix \o <<"a">>],
     [title |-> "t2", price |-> 50, url |-> HttpPrefix \o <<"a">>],
     [title |-> "", price |-> 1999, url |-> HttpsPrefix \o <<"a">>],
     [title |-> "t3", price |-> 0, url |-> HttpsPrefix \o <<"a">>],
     [title |-> "t4", price |-> -5, url |-> HttpsPrefix \o <<"a">>],
     [title |-> "t5", price |-> 1999, url |-> <<>>],
     [title |-> "t6", price |-> 1999, url |-> <<"/", "d", "p">>],
     [title |-> "t7", price |-> 1999, url |-> <<"f", "t", "p", ":", "/", "/", "a">>]}

ParseOutcomes ==
    {[parse |-> "raises"], [parse |-> "None"]}
        \cup {[parse |-> "record", product |-> r] : r \in ParsedRecords}

\* The same check without the test of the scheme of the url.
validate_product_any_url(product) ==
    /\ product.title # ""
    /\ product.price # 0
    /\ product.url # <<>>
    /\ ~(product.price <= 0)

_validate_product(product) ==
    /\ product.title # ""
    /\ product.price # 0
    /\ product.url # <<>>
    /\ ~(product.price <= 0)
    /\ product.url # <<>>
    /\ StartsWith(product.url, HttpPrefix) \/ StartsWith(product.url, HttpsPrefix)

RECURSIVE _extract_products_from_page(_)
_extract_products_from_page(elements) ==
    IF elements = <<>> THEN <<>>
    ELSE LET element == Head(elements)
             rest == _extract_products_from_page(Tail(elements))
         IN IF element.parse = "record" /\ _validate_product(element.product)
               THEN <<element.product>> \o rest
               ELSE rest

ExtractProductsFromPage ==
    /\ call.pc = "args"
    /\ call.fn = "_extract_products_from_page"
    /\ call' = [pc |-> "done", fn |-> call.fn, elements |-> call.elements,
                result |-> _extract_products_from_page(call.elements)]
    /\ UNCHANGED programVars

InitExtract ==
    /\ Quiet
    /\ call \in {[pc |-> "args", fn |-> "_extract_products_from_page", elements |-> es] :
                    es \in SeqsUpTo(ParseOutcomes, MaxElements)}

NextExtract == ExtractProductsFromPage

SpecExtract == InitExtract /\ [][NextExtract]_vars

\* The positions of the elements of the page that parse to a record with a
\* title, a price above 0 and an http:// or https:// url.
ValidElements(elements) ==
    {i \in 1..Len(elements) :
        /\ elements[i].parse = "record"
        /\ elements[i].product.title # ""
        /\ elements[i].product.price > 0
        /\ \/ /\ Len(elements[i].product.url) >= 7
              /\ SubSeq(elements[i].product.url, 1, 7) = <<"h", "t", "t", "p", ":", "/", "/">>
           \/ /\ Len(elements[i].product.url) >= 8
              /\ SubSeq(elements[i].product.url, 1, 8)
                    = <<"h", "t", "t", "p", "s", ":", "/", "/">>}

\* C12: the records extracted from a page are exactly its elements that parse
\* to a record with a non-empty title, a price above 0 and a url starting with
\* http:// or https://, in page order: an element that is dropped (invalid
\* record, None, or an error of the parser) does not end the extraction of
\* the elements after it.
C12_OnlyValidRecords ==
    Done("_extract_products_from_page") =>
        LET valid == ValidElements(call.elements)
        IN /\ Len(call.result) = Cardinality(valid)
           /\ \A j \in 1..Len(call.result) :
                \E i \in valid :
                    /\ Cardinality({m \in valid : m <= i}) = j
                    /\ call.result[j] = call.elements[i].product

\* A page whose first element has a url without scheme and whose second
\* element raises in the parser, followed by a valid record that is returned.
C12_Witness ==
    /\ Done("_extract_products_from_page")
    /\ Len(call.elements) = 3
    /\ call.elements[1].parse = "record"
    /\ call.elements[1].product.url = <<"/", "d", "p">>
    /\ call.elements[2].parse = "raises"
    /\ call.elements[3].parse = "record"
    /\ call.result = <<call.elements[3].product>>

(***************************************************************************)
(* helpers.format_price.  A text is a sequence of characters.  A float is  *)
(* the exact decimal num / 10^scale of the text float() parsed.            *)
(***************************************************************************)
\* The bound on the length of the generated price texts.
MaxText == 4

Digits == {"0", "1", "2", "3", "4", "5", "6", "7", "8", "9"}

DigitValue ==
    ("0" :> 0) @@ ("1" :> 1) @@ ("2" :> 2) @@ ("3" :> 3) @@ ("4" :> 4) @@
    ("5" :> 5) @@ ("6" :> 6) @@ ("7" :> 7) @@ ("8" :> 8) @@ ("9" :> 9)

\* The characters of the generated texts: digits, both separators, a symbol.
PriceChars == {"1", "5", ",", ".", "$"}

\* Texts as the sites print them.
PriceExamples ==
    {<<"1", ".", "2", "3", "4", ",", "5", "6">>,
     <<"1", ",", "2", "3", "4", ".", "5", "6">>,
     <<"9", "9", ",", "9", "0">>,
     <<"1", "2", "3", "4">>,
     <<"1", ".", "9", "9", "9">>,
     <<"R", "$", " ", "1", ".", "2", "3", "4", ",", "5", "6">>}

PriceTexts == SeqsUpTo(PriceChars, MaxText) \cup PriceExamples

Has(text, c) == \E i \in 1..Len(text) : text[i] = c

Count(text, c) == Cardinality({i \in 1..Len(text) : text[i] = c})

\* str.index and str.rindex, for a character the text has.
index(text, c) == Min({i \in 1..Len(text) : text[i] = c})

rindex(text, c) == Max({i \in 1..Len(text) : text[i] = c})

\* str.replace(c, '') and str.replace(c, d).
Remove(text, c) == LET Other(x) == x # c IN SelectSeq(text, Other)

Replace(text, c, d) == [i \in 1..Len(text) |-> IF text[i] = c THEN d ELSE text[i]]

\* re.sub(r'[^\d,.]', '', text)
CleanPrice(text) ==
    LET Kept(x) == x \in Digits \cup {",", "."} IN SelectSeq(text, Kept)

\* The number a sequence of digits writes.
RECURSIVE NatOf(_)
NatOf(digits) ==
    IF digits = <<>> THEN 0
    ELSE 10 * NatOf(SubSeq(digits, 1, Len(digits) - 1)) + DigitValue[digits[Len(digits)]]

Float(num, scale) == [num |-> num, scale |-> scale]

\* 10^n
RECURSIVE Pow10(_)
Pow10(n) == IF n = 0 THEN 1 ELSE 10 * Pow10(n - 1)

\* Two floats are the same number.
SameNumber(a, b) == a.num * Pow10(b.scale) = b.num * Pow10(a.scale)

\* float(text): digits with at most one point; anything else is a ValueError.
FloatParses(text) ==
    /\ ~Has(text, ",")
    /\ Count(text, ".") <= 1
    /\ \E i \in 1..Len(text) : text[i] \in Digits

float(text) ==
    Float(NatOf(Remove(text, ".")),
          IF Has(text, ".") THEN Len(text) - index(text, ".") ELSE 0)

format_price(price_text) ==
    LET price_clean == CleanPrice(price_text)
        normal ==
            IF Has(price_clean, ",") /\ Has(price_clean, ".")
               THEN IF rindex(price_clean, ",") > rindex(price_clean, ".")
                       THEN Replace(Remove(price_clean, "."), ",", ".")
                       ELSE price_clean
            ELSE IF Has(price_clean, ",")
               THEN IF Count(price_clean, ",") = 1
                       /\ Len(price_clean) - index(price_clean, ",") <= 2
                       THEN Replace(price_clean, ",", ".")
                       ELSE price_clean
            ELSE price_clean
    IN IF price_text = <<>> THEN Float(0, 0)
       ELSE IF price_clean = <<>> THEN Float(0, 0)
       ELSE IF FloatParses(normal) THEN float(normal)
       ELSE Float(0, 0)

FormatPrice ==
    /\ call.pc = "args"
    /\ call.fn = "format_price"
    /\ call' = [pc |-> "done", fn |-> call.fn, price_text |-> call.price_text,
                result |-> format_price(call.price_text)]
    /\ UNCHANGED programVars

InitPrice ==
    /\ Quiet
    /\ call \in {[pc |-> "args", fn |-> "format_price", price_text |-> t] : t \in PriceTexts}

NextPrice == FormatPrice

SpecPrice == InitPrice /\ [][NextPrice]_vars

\* The characters of the text that are digits or separators.
Cleaned(text) ==
    LET Kept(x) == x \in {"0", "1", "2", "3", "4", "5", "6", "7", "8", "9", ",", "."}
    IN SelectSeq(text, Kept)

\* The digits of a text, its separators left out.
DigitsOf(text) ==
    LET IsDigit(x) == x \notin {",", "."} IN SelectSeq(text, IsDigit)

\* The number the text writes when the separator at position p is the decimal
\* point and every other separator groups thousands.
ValueWithPointAt(text, p) ==
    [num |-> NatOf(DigitsOf(text)),
     scale |-> Len(DigitsOf(SubSeq(text, p + 1, Len(text))))]

\* The position of the last separator of a text that has one.
LastSeparator(text) == Max({i \in 1..Len(text) : text[i] \in {",", "."}})

\* C13: for a cleaned price text that starts and ends with a digit and has a
\* digit between any two separators: when it
\* has both ',' and '.', and the kind that occurs last occurs once, the result
\* is the number with that last separator as decimal point and the other kind
\* removed, in both orders; a lone comma followed by 1-2 digits is the decimal
\* point; a digits-only text is its own value.
C13_LaterSeparatorIsDecimal ==
    Done("format_price") =>
        LET t == Cleaned(call.price_text)
            commas == {i \in 1..Len(t) : t[i] = ","}
            points == {i \in 1..Len(t) : t[i] = "."}
            framed == /\ t # <<>>
                      /\ t[1] \notin {",", "."}
                      /\ t[Len(t)] \notin {",", "."}
                      /\ \A i \in 1..(Len(t) - 1) :
                            ~(t[i] \in {",", "."} /\ t[i + 1] \in {",", "."})
        IN /\ (framed /\ commas # {} /\ points # {}
                  /\ Cardinality({i \in commas \cup points :
                                     t[i] = t[LastSeparator(t)]}) = 1)
                => SameNumber(call.result, ValueWithPointAt(t, LastSeparator(t)))
           /\ (framed /\ Cardinality(commas) = 1 /\ points = {}
                  /\ Len(t) - LastSeparator(t) <= 2)
                => SameNumber(call.result, ValueWithPointAt(t, LastSeparator(t)))
           /\ (framed /\ commas = {} /\ points = {})
                => SameNumber(call.result, ValueWithPointAt(t, Len(t)))

(***************************************************************************)
(* helpers.extract_rating.                                                 *)
(***************************************************************************)
RatingChars == {"1", "5", "9", ".", ",", "*"}

\* "*" stands for a star character.
RatingExamples ==
    {<<"9", ".", "0">>, <<"4", ".", "5">>, <<"1", "2">>,
     <<"4", ",", "5", " ", "d", "e", " ", "5">>,
     <<"n", "o", "t", "a", " ", "8">>,
     <<"*", "*", "*", "*", "*", "*">>}

RatingTexts == SeqsUpTo(RatingChars, MaxText) \cup RatingExamples

\* The number of consecutive digits of the text from position i on.
RECURSIVE DigitRun(_, _)
DigitRun(text, i) ==
    IF i <= Len(text) /\ text[i] \in Digits THEN 1 + DigitRun(text, i + 1) ELSE 0

\* re.search(r'(\d+[.,]?\d*)', text).group(1) of a text that has a digit: the
\* leftmost run of digits, a separator if one follows, the digits after it.
RatingMatch(text) ==
    LET start == Min({i \in 1..Len(text) : text[i] \in Digits})
        whole == DigitRun(text, start)
        sep == start + whole
        hasSep == sep <= Len(text) /\ text[sep] \in {".", ","}
        last == IF hasSep THEN sep + DigitRun(text, sep + 1) ELSE sep - 1
    IN SubSeq(text, start, last)

\* a > b, a / 2, min(5.0, max(0.0, a)) on exact decimals.
Greater(a, b) == a.num * Pow10(b.scale) > b.num * Pow10(a.scale)

Half(a) == Float(a.num * 5, a.scale + 1)

Clamp05(a) ==
    IF Greater(Float(0, 0), a) THEN Float(0, 0)
    ELSE IF Greater(a, Float(5, 0)) THEN Float(5, 0)
    ELSE a

extract_rating_no_halving(rating_text) ==
    IF rating_text = <<>> THEN Float(0, 0)
    ELSE IF \E i \in 1..Len(rating_text) : rating_text[i] \in Digits
       THEN Clamp05(float(Replace(RatingMatch(rating_text), ",", ".")))
    ELSE IF Count(rating_text, "*") > 0
       THEN Float(Min({5, Count(rating_text, "*")}), 0)
    ELSE Float(0, 0)

extract_rating(rating_text) ==
    IF rating_text = <<>> THEN Float(0, 0)
    ELSE IF \E i \in 1..Len(rating_text) : rating_text[i] \in Digits
       THEN LET rating == float(Replace(RatingMatch(rating_text), ",", "."))
            IN Clamp05(IF Greater(rating, Float(5, 0)) THEN Half(rating) ELSE rating)
    ELSE IF Count(rating_text, "*") > 0
       THEN Float(Min({5, Count(rating_text, "*")}), 0)
    ELSE Float(0, 0)

ExtractRating ==
    /\ call.pc = "args"
    /\ call.fn = "extract_rating"
    /\ call' = [pc |-> "done", fn |-> call.fn, rating_text |-> call.rating_text,
                result |-> extract_rating(call.rating_text)]
    /\ UNCHANGED programVars

InitRating ==
    /\ Quiet
    /\ call \in {[pc |-> "args", fn |-> "extract_rating", rating_text |-> t] : t \in RatingTexts}

NextRating == ExtractRating

SpecRating == InitRating /\ [][NextRating]_vars

\* The leading numeric token of a text that starts with a digit, as a number:
\* its digits, with the digits after a separator as the decimals.
LeadingToken(text) ==
    LET whole == DigitRun(text, 1)
        hasSep == whole < Len(text) /\ text[whole + 1] \in {".", ","}
        decimals == IF hasSep THEN DigitRun(text, whole + 2) ELSE 0
    IN [num |-> NatOf(SubSeq(text, 1, whole)
                      \o SubSeq(text, whole + 2, whole + 1 + decimals)),
        scale |-> decimals]

\* C14: the rating of any text is within [0, 5]; for a text that starts with
\* a numeric token v it is v when v <= 5, v / 2 when 5 < v <= 10, and 5 when
\* v > 10.
C14_RatingScale ==
    Done("extract_rating") =>
        /\ call.result.num >= 0
        /\ call.result.num <= 5 * Pow10(call.result.scale)
        /\ (call.rating_text # <<>> /\ call.rating_text[1] \in Digits) =>
              LET v == LeadingToken(call.rating_text)
                  ten == Pow10(v.scale)
              IN IF v.num <= 5 * ten THEN SameNumber(call.result, v)
                 ELSE IF v.num <= 10 * ten
                    THEN SameNumber(call.result, [num |-> v.num * 5, scale |-> v.scale + 1])
                 ELSE SameNumber(call.result, [num |-> 5, scale |-> 0])

\* "9.0" was rated 4.5.
C14_Witness ==
    /\ Done("extract_rating")
    /\ call.rating_text = <<"9", ".", "0">>
    /\ SameNumber(call.result, [num |-> 45, scale |-> 1])

(***************************************************************************)
(* DatabaseManager.cleanup_old_data called with a number of days on a      *)
(* database that holds rows around the cutoff.                             *)
(***************************************************************************)
\* The bound on the number of rows per table.
MaxRows == 2

\* The hour of the call, and the hours the stored rows were written at.
CleanupNow == 72

CleanupDays == {1, 2}

Stamps == {24, 47, 48, 49}

StampSets == {T \in SUBSET Stamps : Cardinality(T) <= MaxRows}

\* The row log_email_sent inserts: sent_at defaults to func.now().
EmailLog(id, sent_at) == [id |-> id, sent_at |-> sent_at]

\* Tables with one row per hour of T, ids in the order of the hours.
RankIn(T, t) == Cardinality({u \in T : u <= t})

HistoryAt(T) ==
    {[id |-> RankIn(T, t), product_id |-> 1, price |-> 1000, recorded_at |-> t] : t \in T}

SessionsAt(T) ==
    {[id |-> RankIn(T, t), site |-> "amazon", search_term |-> "notebook",
      products_found |-> 0, products_saved |-> 0, success |-> FALSE,
      error_message |-> "", started_at |-> t, completed_at |-> NoTime,
      duration_seconds |-> NoTime] : t \in T}

EmailLogsAt(T) == {EmailLog(RankIn(T, t), t) : t \in T}

\* cleanup_old_data: the three deletions and one commit; an error before the
\* commit leaves the database as it was (rollback, or the session closing).
CleanupOldData ==
    /\ call.pc = "args"
    /\ call.fn = "cleanup_old_data"
    /\ tx.pc # "loop"
    /\ \E err \in Errors \cup {NoError} :
         LET cleaned == cleanup_old_data(Committed, sessions, email_logs, call.days)
         IN /\ price_history' = IF err = NoError THEN cleaned.price_history
                                ELSE price_history
            /\ sessions' = IF err = NoError THEN cleaned.sessions ELSE sessions
            /\ email_logs' = IF err = NoError THEN cleaned.email_logs ELSE email_logs
            /\ call' = [pc |-> "done", fn |-> call.fn, days |-> call.days,
                        raised |-> err,
                        old_history |-> Cardinality(price_history \ cleaned.price_history),
                        old_sessions |-> Cardinality(sessions \ cleaned.sessions),
                        old_emails |-> Cardinality(email_logs \ cleaned.email_logs)]
    /\ UNCHANGED <<products, now, catalog, _scrapers, tx, changes, running, sweep, lastRun,
                   fetchVars, search>>

InitCleanup ==
    /\ products = <<[id |-> 1, url |-> "u1", site |-> "amazon", external_id |-> "",
                     current_price |-> 1000]>>
    /\ price_history \in {HistoryAt(T) : T \in StampSets}
    /\ now = CleanupNow
    /\ _scrapers = BuiltinScrapers
    /\ catalog = PriceCatalog
    /\ tx = NoTx
    /\ changes = NoChanges
    /\ sessions \in {SessionsAt(T) : T \in StampSets}
    /\ email_logs \in {EmailLogsAt(T) : T \in StampSets}
    /\ running = TRUE
    /\ sweep = [pc |-> "idle"]
    /\ lastRun = [job |-> "none"]
    /\ NoFetch
    /\ NoSearch
    /\ call \in {[pc |-> "args", fn |-> "cleanup_old_data", days |-> d] : d \in CleanupDays}

NextCleanup == CleanupOldData

SpecCleanup == InitCleanup /\ [][NextCleanup]_vars

\* C15: a call of cleanup_old_data(days) that succeeds leaves in price_history,
\* scraping_sessions and email_logs exactly the rows that are not strictly
\* earlier than now - days (in hours: 24 per day), a call that fails leaves the
\* three tables as they were, and the listings are unchanged either way.
C15_CleanupExactAndAtomic ==
    [][(call.pc = "args" /\ call.fn = "cleanup_old_data" /\ call'.pc = "done") =>
          /\ products' = products
          /\ \/ /\ call'.raised = "none"
                /\ price_history' = {h \in price_history : h.recorded_at >= now - 24 * call.days}
                /\ sessions' = {r \in sessions : r.started_at >= now - 24 * call.days}
                /\ email_logs' = {m \in email_logs : m.sent_at >= now - 24 * call.days}
             \/ /\ call'.raised # "none"
                /\ price_history' = price_history
                /\ sessions' = sessions
                /\ email_logs' = email_logs]_vars

\* A successful call removed rows of all three tables and kept a price row
\* recorded exactly at the cutoff.
C15_Witness ==
    /\ Done("cleanup_old_data")
    /\ call.raised = "none"
    /\ call.old_history > 0
    /\ call.old_sessions > 0
    /\ call.old_emails > 0
    /\ \E h \in price_history : h.recorded_at = now - 24 * call.days

(***************************************************************************)
(* ScraperFactory: create_scraper, is_site_supported, register_scraper.    *)
(***************************************************************************)
LowerCase ==
    ("A" :> "a") @@ ("B" :> "b") @@ ("C" :> "c") @@ ("D" :> "d") @@ ("E" :> "e") @@
    ("F" :> "f") @@ ("G" :> "g") @@ ("H" :> "h") @@ ("I" :> "i") @@ ("J" :> "j") @@
    ("K" :> "k") @@ ("L" :> "l") @@ ("M" :> "m") @@ ("N" :> "n") @@ ("O" :> "o") @@
    ("P" :> "p") @@ ("Q" :> "q") @@ ("R" :> "r") @@ ("S" :> "s") @@ ("T" :> "t") @@
    ("U" :> "u") @@ ("V" :> "v") @@ ("W" :> "w") @@ ("X" :> "x") @@ ("Y" :> "y") @@
    ("Z" :> "z")

Whitespace == {" ", "\t", "\n"}

\* str.lower()
lower(text) ==
    [i \in 1..Len(text) |-> IF text[i] \in DOMAIN LowerCase THEN LowerCase[text[i]]
                                                            ELSE text[i]]

\* str.strip(): the text without its leading and trailing whitespace.
strip(text) ==
    LET inked == {i \in 1..Len(text) : text[i] \notin Whitespace}
    IN IF inked = {} THEN <<>> ELSE SubSeq(text, Min(inked), Max(inked))

SiteChars == {"m", "l", "M", " "}

SiteExamples ==
    {<<"a", "m", "a", "z", "o", "n">>, <<"A", "m", "a", "z", "o", "n">>, <<" ", "E", "B", "A", "Y", " ">>, <<"m", "e", "r", "c", "a", "d", "o", "l", "i", "v", "r", "e">>, <<"i", "n", "v", "a", "l", "i", "d", "_", "s", "i", "t", "e">>, <<"s", "h", "o", "p", "e", "e">>}

SiteNames == SeqsUpTo(SiteChars, MaxText) \cup SiteExamples

\* What a constructor can raise: UserAgent() in BaseScraper.__init__, or the
\* instantiation of a registered class that leaves a method abstract.
ConstructorErrors == {"FakeUserAgentError", "TypeError"}

ScraperClasses == {"AmazonScraper", "CustomScraper"}

\* Names register_scraper is called with.
RegisteredNames == {<<"A", "m", "a", "z", "o", "n">>, <<"s", "h", "o", "p">>, <<" ", "m", "l", " ">>}

is_site_supported(site) == strip(lower(site)) \in DOMAIN _scrapers

\* The lookup and the constructor call of create_scraper; ctor is the outcome of
\* the constructor.
create_scraper_untrimmed(site, ctor) ==
    LET site_lower == lower(site)
    IN IF site_lower \notin DOMAIN _scrapers
          THEN [raised |-> "ValueError", scraper |-> "none"]
       ELSE IF ctor # NoError
          THEN [raised |-> ctor, scraper |-> "none"]
       ELSE [raised |-> NoError, scraper |-> _scrapers[site_lower]]

create_scraper(site, ctor) ==
    LET site_lower == strip(lower(site))
    IN IF site_lower \notin DOMAIN _scrapers
          THEN [raised |-> "ValueError", scraper |-> "none"]
       ELSE IF ctor # NoError
          THEN [raised |-> ctor, scraper |-> "none"]
       ELSE [raised |-> NoError, scraper |-> _scrapers[site_lower]]

CreateScraper ==
    /\ call.pc = "args"
    /\ call.fn = "create_scraper"
    /\ \E ctor \in ConstructorErrors \cup {NoError} :
         call' = [pc |-> "done", fn |-> call.fn, site |-> call.site,
                  result |-> create_scraper(call.site, ctor)]
    /\ UNCHANGED programVars

\* register_scraper with a subclass of BaseScraper, ahead of the call of
\* create_scraper: the key is site.lower().
RegisterScraper ==
    /\ call.pc = "args"
    /\ \E site \in RegisteredNames, scraper_class \in ScraperClasses :
         /\ (lower(site) \in DOMAIN _scrapers => _scrapers[lower(site)] # scraper_class)
         /\ _scrapers' = (lower(site) :> scraper_class) @@ _scrapers
    /\ UNCHANGED <<call, storeVars, now, catalog, schedVars, fetchVars, search>>

InitFactory ==
    /\ Quiet
    /\ call \in {[pc |-> "args", fn |-> "create_scraper", site |-> s] : s \in SiteNames}

NextFactory ==
    \/ CreateScraper
    \/ RegisterScraper

SpecFactory == InitFactory /\ [][NextFactory]_vars

\* The lower-cased, trimmed name of the call.
C16_Key == strip(lower(call.site))

price_selectors ==
    <<".a-price-whole", ".a-price .a-offscreen", ".a-price-range .a-offscreen",
      ".a-price-symbol + .a-price-whole">>

\* Texts of the price elements of a result.
AmazonPriceTexts ==
    {<<"1", ".", "9", "9", "9">>, <<"1", ".", "9", "9", "9", ",">>, <<"R", "$", " ", "1", ".", "9", "9", "9", ",", "0", "0">>, <<"9", "9", "9">>, <<"a", "b", "c">>}

AmazonElements ==
    [{price_selectors[k] : k \in 1..Len(price_selectors)} ->
        {None} \cup {Some(text) : text \in AmazonPriceTexts}]

\* BaseScraper._extract_price(element, selector)
_extract_price(element, selector) ==
    IF element[selector] = None THEN Float(0, 0)
    ELSE format_price(element[selector][1])

\* for selector in price_selectors: price = ...; if price > 0: break
RECURSIVE PriceLoop(_, _, _)
PriceLoop(element, k, price) ==
    IF k > Len(price_selectors) THEN price
    ELSE LET found == _extract_price(element, price_selectors[k])
         IN IF found.num > 0 THEN found ELSE PriceLoop(element, k + 1, found)

ParseAmazonPrice ==
    /\ call.pc = "args"
    /\ call.fn = "_parse_product_element"
    /\ call' = [pc |-> "done", fn |-> call.fn, element |-> call.element,
                price |-> PriceLoop(call.element, 1, Float(0, 0))]
    /\ UNCHANGED programVars

InitAmazonPrice ==
    /\ Quiet
    /\ call \in {[pc |-> "args", fn |-> "_parse_product_element", element |-> el] :
                    el \in AmazonElements}

NextAmazonPrice == ParseAmazonPrice

SpecAmazonPrice == InitAmazonPrice /\ [][NextAmazonPrice]_vars

\* C17: when the whole-price text of an Amazon result is one to three digits,
\* a period and exactly three digits (as in "1.999"), the price of the parsed
\* record is the number written by the digits alone (1999.0).
C17_ThousandsPeriod ==
    Done("_parse_product_element") =>
        LET whole == call.element[".a-price-whole"]
        IN (/\ whole # <<>>
            /\ Len(whole[1]) \in 5..7
            /\ whole[1][Len(whole[1]) - 3] = "."
            /\ \A i \in 1..Len(whole[1]) : i # Len(whole[1]) - 3 => whole[1][i] \in Digits
            /\ whole[1][1] # "0")
           => SameNumber(call.price, [num |-> NatOf(DigitsOf(whole[1])), scale |-> 0])

(***************************************************************************)
(* Two save_products calls of one record each, from two database sessions  *)
(* (the scheduler's process and the dashboard's).  A session reads the     *)
(* committed tables when it looks its record up; what it then writes is    *)
(* flushed and committed as one step (the writer holds the database lock   *)
(* from the flush to the commit), on the rows as the session loaded them.  *)
(* Here tx holds both sessions.                                            *)
(***************************************************************************)
DbSessions == {1, 2}

EmptyDb == [products |-> <<>>, price_history |-> {}]

\* The tables before the two calls: empty, or one stored listing.
StartDbs ==
    {EmptyDb,
     InsertNewProduct(EmptyDb, [url |-> "u1", site |-> "amazon", external_id |-> "",
                                price |-> 1000])}

\* self._find_existing_product(db, product_data) of session s: the row is
\* loaded into the session with the price it has now.
SessionFind(s) ==
    /\ tx.pc = "sessions"
    /\ tx.of[s].pc = "begin"
    /\ LET existing_product == _find_existing_product(Committed, tx.of[s].product_data)
       IN tx' = [tx EXCEPT !.of[s] =
                    [pc |-> "found", product_data |-> tx.of[s].product_data,
                     existing |-> existing_product,
                     loaded_price |-> IF existing_product = 0 THEN 0
                                      ELSE products[existing_product].current_price]]
    /\ UNCHANGED <<call, products, price_history, now, catalog, _scrapers, changes,
                   schedVars, fetchVars, search>>

\* The tables as session s sees them: the committed rows, the row it loaded
\* with the price it was loaded with.
SessionView(s) ==
    IF tx.of[s].existing = 0 THEN Committed
    ELSE [products |-> [products EXCEPT ![tx.of[s].existing].current_price =
                                            tx.of[s].loaded_price],
          price_history |-> price_history]

\* The rest of the call of session s: the update or the insert, and db.commit().
SessionCommit(s) ==
    /\ tx.pc = "sessions"
    /\ tx.of[s].pc = "found"
    /\ LET working == IF tx.of[s].existing # 0
                         THEN _update_existing_product(SessionView(s), tx.of[s].existing,
                                                       tx.of[s].product_data)
                         ELSE InsertNewProduct(Committed, tx.of[s].product_data)
       IN /\ products' = working.products
          /\ price_history' = working.price_history
    /\ tx' = [tx EXCEPT !.of[s].pc = "done"]
    /\ UNCHANGED <<call, now, catalog, _scrapers, changes, schedVars, fetchVars, search>>

\* The call of session s fails: nothing of it is committed.
SessionFail(s) ==
    /\ tx.pc = "sessions"
    /\ tx.of[s].pc = "found"
    /\ tx' = [tx EXCEPT !.of[s].pc = "failed"]
    /\ UNCHANGED <<call, products, price_history, now, catalog, _scrapers, changes,
                   schedVars, fetchVars, search>>

InitConcurrent ==
    /\ now = 0
    /\ \E db \in StartDbs :
         /\ products = db.products
         /\ price_history = db.price_history
         /\ tx \in {[pc |-> "sessions", start |-> db,
                     of |-> [s \in DbSessions |-> [pc |-> "begin", product_data |-> d[s]]]] :
                       d \in [DbSessions -> PriceCatalog]}
    /\ catalog = PriceCatalog
    /\ _scrapers = BuiltinScrapers
    /\ changes = NoChanges
    /\ InitOther

NextConcurrent ==
    \/ \E s \in DbSessions : SessionFind(s)
    \/ \E s \in DbSessions : SessionCommit(s)
    \/ \E s \in DbSessions : SessionFail(s)

SpecConcurrent == InitConcurrent /\ [][NextConcurrent]_vars

\* The tables after the call with record a and then the call with record b.
SerialOutcome(db, a, b) ==
    LET first == save_products(db, <<a>>, 0, "none")
        second == save_products([products |-> first.products,
                                 price_history |-> first.price_history], <<b>>, 0, "none")
    IN [products |-> second.products, price_history |-> second.price_history]

\* C18: when two save_products calls for records with the same url have both
\* committed, one stored listing has that url and the tables are those one of
\* the two serial orders of the calls produces.
C18_ConcurrentSavesSerializable ==
    (/\ tx.pc = "sessions"
     /\ \A s \in {1, 2} : tx.of[s].pc = "done"
     /\ tx.of[1].product_data.url = tx.of[2].product_data.url)
    => /\ Cardinality({i \in 1..Len(products) :
                          products[i].url = tx.of[1].product_data.url}) = 1
       /\ [products |-> products, price_history |-> price_history] \in
             {SerialOutcome(tx.start, tx.of[1].product_data, tx.of[2].product_data),
              SerialOutcome(tx.start, tx.of[2].product_data, tx.of[1].product_data)}

(***************************************************************************)
(* save_products on one listing whose offers move in steps of 0.01.        *)
(***************************************************************************)
DriftPrices == {1000, 1010, 1020}

DriftCatalog ==
    {[url |-> "u1", site |-> "amazon", external_id |-> "", price |-> p] : p \in DriftPrices}

InitDrift ==
    /\ products = <<>>
    /\ price_history = {}
    /\ now = 0
    /\ catalog = DriftCatalog
    /\ _scrapers = BuiltinScrapers
    /\ tx = NoTx
    /\ changes = NoChanges
    /\ InitOther

\* Calls of save_products, one after the other.
NextDrift ==
    \/ BeginSave
    \/ SaveRecord
    \/ SaveCommit
    \/ SaveFail

SpecDrift == InitDrift /\ [][NextDrift]_vars

\* The most recent row of a listing: the latest recorded_at, and among rows of
\* one timestamp the one inserted last.
MostRecentRows(product_id) ==
    {h \in price_history :
        /\ h.product_id = product_id
        /\ \A g \in price_history :
              g.product_id = product_id =>
                  \/ g.recorded_at < h.recorded_at
                  \/ (g.recorded_at = h.recorded_at /\ g.id <= h.id)}

C20_EveryChangeReported ==
    changes.asked =>
        \A h \in price_history :
            (/\ h.recorded_at >= changes.cutoff_date
             /\ \E g \in price_history : g.product_id = h.product_id /\ g.id < h.id)
            => \E t \in changes.result : t[3] = h

\* C21: a pair of the daily sweep that raised after its session was created
\* (save_products or update_scraping_session raised) has that session stored
\* with success = FALSE and a non-empty error_message.
C21_FailedPairSessionHasError ==
    \A k \in 1..Len(Attempted) :
        (Attempted[k].session_id # 0 /\ Attempted[k].raised # "none") =>
            \E r \in sessions :
                /\ r.id = Attempted[k].session_id
                /\ ~r.success
                /\ r.error_message # ""

\* C22: a finished search_products call whose last page request failed does
\* not return the empty list, which is what a call returns whose first page
\* was fetched and held no listing.
C22_FailedFetchNotEmptyResult ==
    (/\ search.pc = "done"
     /\ Len(search.log) > 0
     /\ ~search.log[Len(search.log)].ok
     /\ search.products = 0)
    => search.result # 0

\* C23: every pair the daily sweep has been through has a session of its own,
\* created before the extraction and so whatever the extraction gave, and that
\* session was completed by one update: completed_at is set, duration_seconds
\* is completed_at - started_at, and a successful session carries the number
\* of listings found.
C23_SessionLifecycle ==
    \A k \in 1..Len(Attempted) :
        \E r \in sessions :
            /\ r.id = Attempted[k].session_id
            /\ r.completed_at # -1
            /\ r.duration_seconds = r.completed_at - r.started_at
            /\ r.success => r.products_found = Attempted[k].found

(***************************************************************************)
(* Two tasks, each with an adapter instance of its own.  _make_request is  *)
(* decorated once, in the body of class BaseScraper, so the cell           *)
(* last_called of the closure of rate_limit is the one cell every          *)
(* instance of every adapter class reads and writes.                       *)
(***************************************************************************)
GateTasks == {1, 2}

\* The bounds when two tasks run: the calls of a task and the last second.
GateCalls == 1

GateClock == 6

\* The adapter instance a task makes its requests through.
AdapterOf == <<"AmazonScraper", "EbayScraper">>

InitGates ==
    /\ products = <<>>
    /\ price_history = {}
    /\ now = RatePeriod
    /\ _scrapers = BuiltinScrapers
    /\ catalog = {}
    /\ tx = NoTx
    /\ changes = NoChanges
    /\ last_called = 0
    /\ fetch = [t \in GateTasks |-> IdleFetch]
    /\ gets = <<>>
    /\ NoSched
    /\ NoSearch
    /\ NoCall

\* Each task makes GateCalls calls of _make_request, up to second GateClock.
GateCall(t) == fetch[t].call < GateCalls /\ Call(t)

GateAdvance == now < GateClock /\ Advance

NextGates ==
    \/ \E t \in GateTasks : GateCall(t)
    \/ \E t \in GateTasks : GateWake(t)
    \/ \E t \in GateTasks : Respond(t)
    \/ \E t \in GateTasks : BackoffWake(t)
    \/ GateAdvance

SpecGates == InitGates /\ [][NextGates]_vars

\* C24: a task waits at the gate only behind a request made through its own
\* adapter instance: requests of another instance neither delay it nor set
\* the last-request time its gate reads.
C24_GatePerInstance ==
    \A t \in {1, 2} :
        fetch[t].pc = "gate" =>
            \E i \in 1..Len(gets) :
                <<"AmazonScraper", "EbayScraper">>[gets[i].task] =
                    <<"AmazonScraper", "EbayScraper">>[t]

\* C25: the first GETs of two _make_request calls made by different tasks
\* leave at least one period (2 seconds) apart.
C25_ConcurrentCallersSpaced ==
    \A i, j \in 1..Len(gets) :
        (/\ i < j
         /\ gets[i].task # gets[j].task
         /\ gets[i].attempt = 0
         /\ gets[j].attempt = 0)
        => gets[j].at - gets[i].at >= 2

(***************************************************************************)
(* A termination signal while the daily sweep is in search_products.       *)
(* signal_handler calls sys.exit(0).  When the job is inside the blocking  *)
(* session.get, SystemExit is raised there; when the job sleeps (at the    *)
(* gate or between two attempts) the event loop is left and asyncio.run    *)
(* cancels the task, which receives CancelledError at its await.  Either   *)
(* passes every except Exception on the way out of the job; run_forever    *)
(* stops the scheduler in its finally clause.                              *)
(***************************************************************************)
InitCancel ==
    /\ products = <<>>
    /\ price_history = {}
    /\ now = RatePeriod
    /\ _scrapers = BuiltinScrapers
    /\ catalog = {}
    /\ tx = NoTx
    /\ changes = NoChanges
    /\ sessions = {}
    /\ email_logs = {}
    /\ running = TRUE
    /\ sweep = [pc |-> "pairs", i |-> 1, all_products |-> 0, attempted |-> <<>>]
    /\ lastRun = NoRun
    /\ last_called = 0
    /\ fetch = [t \in Tasks |-> IdleFetch]
    /\ gets = <<>>
    /\ NoSearch
    /\ NoCall

\* The error the signal raises in the job, by where the job is.
SignalError(pc) == IF pc = "inflight" THEN "SystemExit" ELSE "CancelledError"

signal_handler(t) ==
    LET err == SignalError(fetch[t].pc)
    IN /\ fetch' = [fetch EXCEPT ![t] =
                       [@ EXCEPT !.pc = "raised",
                                 !.last_exception =
                                     IF Catches("Exception", err) THEN err ELSE @,
                                 !.result = err]]
       /\ sweep' = [pc |-> "idle"]
       /\ lastRun' = RunRecord("daily_scraping", JobStatus(err), err, sweep.attempted)

Signal(t) ==
    /\ running
    /\ sweep.pc = "pairs"
    /\ fetch[t].pc \in {"gate", "backoff", "inflight"}
    /\ signal_handler(t)
    /\ running' = FALSE
    /\ UNCHANGED <<call, storeVars, now, catalog, _scrapers, sessions, email_logs,
                   last_called, gets, search>>

\* The fetcher runs while the job does.
JobFetch(t) ==
    /\ sweep.pc = "pairs"
    /\ Call(t) \/ GateWake(t) \/ Respond(t) \/ BackoffWake(t)

JobAdvance == sweep.pc = "pairs" /\ Advance

NextCancel ==
    \/ \E t \in Tasks : JobFetch(t)
    \/ \E t \in Tasks : Signal(t)
    \/ JobAdvance

SpecCancel == InitCancel /\ [][NextCancel]_vars

\* C26: a signal that arrives while the job waits in the backoff, at the gate
\* or in a fetch is followed by no further GET, and the execution of the job
\* ends FAILED.
C26_SignalEndsJobFailed ==
    (lastRun.job = "daily_scraping" /\ lastRun.raised \in {"SystemExit", "CancelledError"})
    => /\ lastRun.status = "FAILED"
       /\ \A t \in DOMAIN fetch : fetch[t].pc \notin {"inflight", "gate", "backoff"}

(***************************************************************************)
(* save_products with every column of products and price_history.  A      *)
(* record is a dict: a key it does not carry takes the default of get.     *)
(***************************************************************************)
\* product_data.get(key, default)
get(product_data, key, default) ==
    IF key \in DOMAIN product_data THEN product_data[key] ELSE default

\* The records the adapters hand over: the Amazon adapter writes in_stock
\* and currency, the Mercado Livre adapter neither.  A price is a number of
\* thousandths, original_price is None outside a promotion.
AmazonRecord(url, title, price, original_price, seen) ==
    [url |-> url, site |-> "amazon", external_id |-> "a1", title |-> title,
     price |-> price, original_price |-> original_price, image_url |-> title,
     rating |-> IF seen THEN 4 ELSE 5, num_reviews |-> IF seen THEN 10 ELSE 11,
     free_shipping |-> seen, in_stock |-> seen,
     currency |-> IF seen THEN "BRL" ELSE "USD"]

MercadoLivreRecord(title, price, original_price) ==
    [url |-> "u2", site |-> "mercadolivre", external_id |-> "", title |-> title,
     price |-> price, original_price |-> original_price, image_url |-> title,
     rating |-> 3, num_reviews |-> price, free_shipping |-> original_price = None]

ExampleRecords ==
    {AmazonRecord("u1", "t1", 1000, Some(2000), TRUE),
     AmazonRecord("u1", "t2", 1500, None, FALSE),
     AmazonRecord("u3", "t3", 1005, Some(2000), FALSE),
     MercadoLivreRecord("t4", 1000, Some(4000)),
     MercadoLivreRecord("t5", 2000, None)}

\* create_product_from_dict with every column, and the id the flush assigns.
Product(db, product_data) ==
    [id |-> Len(db.products) + 1,
     title |-> get(product_data, "title", ""),
     url |-> get(product_data, "url", ""),
     site |-> get(product_data, "site", ""),
     external_id |-> get(product_data, "external_id", ""),
     current_price |-> get(product_data, "price", 0),
     original_price |-> get(product_data, "original_price", None),
     currency |-> get(product_data, "currency", "BRL"),
     image_url |-> get(product_data, "image_url", ""),
     rating |-> get(product_data, "rating", 0),
     num_reviews |-> get(product_data, "num_reviews", 0),
     in_stock |-> get(product_data, "in_stock", TRUE),
     free_shipping |-> get(product_data, "free_shipping", FALSE),
     first_seen |-> now,
     last_updated |-> now]

\* The row PriceHistory(product_id, price, original_price, session_id)
\* inserts: discount_percent is not passed and takes the column default.
PriceHistoryRow(history, product_id, price, original_price) ==
    [id |-> NextHistoryId(history), product_id |-> product_id, price |-> price,
     original_price |-> original_price, discount_percent |-> 0,
     recorded_at |-> now]

\* The assignments of _update_existing_product that leave the title alone.
UpdateColumnsKeepsTitle(product, product_data) ==
    [product EXCEPT
        !.current_price = get(product_data, "price", 0),
        !.original_price = get(product_data, "original_price", None),
        !.last_updated = now]

\* The assignments of _update_existing_product.
UpdateColumns(product, product_data) ==
    [product EXCEPT
        !.title = get(product_data, "title", product.title),
        !.current_price = get(product_data, "price", 0),
        !.original_price = get(product_data, "original_price", None),
        !.image_url = get(product_data, "image_url", product.image_url),
        !.rating = get(product_data, "rating", product.rating),
        !.num_reviews = get(product_data, "num_reviews", product.num_reviews),
        !.in_stock = get(product_data, "in_stock", product.in_stock),
        !.free_shipping = get(product_data, "free_shipping", product.free_shipping),
        !.last_updated = now]

\* One iteration of the loop of save_products, every column included.
SaveColumns(db, product_data) ==
    LET id == _find_existing_product(db, product_data)
        new_product == Product(db, product_data)
        old_price == db.products[id].current_price
        new_price == get(product_data, "price", 0)
    IN IF id # 0
          THEN [products |-> [db.products EXCEPT
                                 ![id] = UpdateColumns(db.products[id], product_data)],
                price_history |->
                    IF PriceChanged(old_price, new_price)
                       THEN db.price_history \cup
                            {PriceHistoryRow(db.price_history, id, new_price,
                                             get(product_data, "original_price", None))}
                       ELSE db.price_history]
          ELSE [products |-> Append(db.products, new_product),
                price_history |-> db.price_history \cup
                    {PriceHistoryRow(db.price_history, new_product.id,
                                     new_product.current_price,
                                     new_product.original_price)}]

InitColumns ==
    /\ products = <<>>
    /\ price_history = {}
    /\ now = 0
    /\ _scrapers = BuiltinScrapers
    /\ catalog = {}
    /\ tx = NoTx
    /\ changes = NoChanges
    /\ NoSched
    /\ NoFetch
    /\ NoSearch
    /\ call \in [pc : {"args"}, fn : {"save_products"}, product_data : ExampleRecords,
                 existing : {0}]

\* save_products([product_data]) commits.
SaveListing ==
    /\ call.pc = "args"
    /\ LET id == _find_existing_product(Committed, call.product_data)
           saved == SaveColumns(Committed, call.product_data)
       IN /\ Len(saved.products) <= MaxProducts
          /\ Cardinality(saved.price_history) <= MaxHistory
          /\ products' = saved.products
          /\ price_history' = saved.price_history
          /\ call' = [call EXCEPT !.pc = "done", !.existing = id]
    /\ UNCHANGED <<now, catalog, _scrapers, tx, changes, schedVars, fetchVars, search>>

\* The next sweep brings another record.
NextRecord ==
    /\ call.pc = "done"
    /\ \E product_data \in ExampleRecords :
         call' = [pc |-> "args", fn |-> "save_products", product_data |-> product_data,
                  existing |-> 0]
    /\ UNCHANGED <<storeVars, now, catalog, _scrapers, schedVars, fetchVars, search>>

NextColumns ==
    \/ SaveListing
    \/ NextRecord
    \/ Tick

SpecColumns == InitColumns /\ [][NextColumns]_vars

\* C27: a price_history row carries the discount of its prices:
\* (original_price - price) / original_price * 100 when original_price is
\* there and above price, 0 otherwise.
C27_DiscountDerived ==
    \A h \in price_history :
        IF h.original_price # <<>> /\ h.original_price[1] > h.price
           THEN h.discount_percent * h.original_price[1] =
                    (h.original_price[1] - h.price) * 100
           ELSE h.discount_percent = 0

Season ==
    /\ now < MaxTime
    /\ tx.pc # "loop"
    /\ now' = now + RetentionDays * HoursPerDay + 1
    /\ tx' = NoTx
    /\ changes' = NoChanges
    /\ UNCHANGED <<call, products, price_history, catalog, _scrapers, schedVars,
                   fetchVars, search>>

NextRetention ==
    \/ BeginSave
    \/ SaveRecord
    \/ SaveCommit
    \/ SaveFail
    \/ Tick
    \/ Season
    \/ WeeklyCleanupJob

SpecRetention == InitStore /\ [][NextRetention]_vars

\* C29: every stored product has at least one price_history row.
C29_EveryListingHasHistory ==
    \A i \in 1..Len(products) :
        \E h \in price_history : h.product_id = products[i].id

(***************************************************************************)
(* The price-monitoring job on its trigger.  IntervalTrigger(hours=4)      *)
(* fires every 4 hours from the start of the scheduler; the job runs at    *)
(* the fire time or shortly after it, and get_price_changes(hours=4)       *)
(* takes its cutoff from the clock at the moment it is called.  The clock  *)
(* of this specification counts half seconds.                              *)
(***************************************************************************)
TicksPerSecond == 2

SecondsPerHour == 3600

\* The interval of the trigger and the window of the query, in ticks.
MonitoringInterval == MonitoringWindow * SecondsPerHour * TicksPerSecond

\* How late after its fire time an execution may start and still be run: 1 second.
MisfireGrace == 1 * TicksPerSecond

\* The bound: the executions of the job.
MonitorRuns == 2

\* The offers of one listing, at two prices.
MonitorCatalog == {d \in DriftCatalog : d.price \in {1000, 1020}}

InitMonitor ==
    /\ products = <<>>
    /\ price_history = {}
    /\ now = 0
    /\ _scrapers = BuiltinScrapers
    /\ catalog = MonitorCatalog
    /\ tx = NoTx
    /\ changes = NoChanges
    /\ NoSched
    /\ NoFetch
    /\ NoSearch
    /\ call = [pc |-> "monitor", next_run |-> MonitoringInterval, windows |-> <<>>]

\* A sweep saves a record of the catalog.
MonitorSave ==
    /\ \E product_data \in catalog :
         LET saved == save_products(Committed, <<product_data>>, 0, NoError)
         IN /\ WithinBounds(saved)
            /\ products' = saved.products
            /\ price_history' = saved.price_history
    /\ UNCHANGED <<call, now, catalog, _scrapers, tx, changes, schedVars, fetchVars, search>>

\* Time passes: a tick around a fire time of the trigger, or the wait until
\* the job is due.
MonitorAdvance ==
    /\ Len(call.windows) < MonitorRuns
    /\ \E later \in {now + 1, call.next_run} :
         /\ later > now
         /\ \/ call.windows # <<>> /\
               later <= call.next_run - MonitoringInterval + MisfireGrace
            \/ later >= call.next_run /\ later <= call.next_run + MisfireGrace
         /\ now' = later
    /\ UNCHANGED <<call, products, price_history, catalog, _scrapers, tx, changes,
                   schedVars, fetchVars, search>>

\* _price_monitoring_job, run when its trigger is due: the query of the last
\* 4 hours returns, or an error reaches the except clause of the job.
MonitorJob ==
    /\ CanFire("price_monitoring")
    /\ Len(call.windows) < MonitorRuns
    /\ now >= call.next_run
    /\ \E err \in Errors \cup {NoError} :
         LET cutoff_date == now - MonitoringInterval
             recent == Recent(price_history, cutoff_date)
         IN \E previous \in PreviousChoices(price_history, recent) :
              /\ changes' = IF err = NoError
                              THEN [asked |-> TRUE, cutoff_date |-> cutoff_date,
                                    result |-> get_price_changes(Committed, cutoff_date,
                                                                 previous)]
                              ELSE NoChanges
              /\ lastRun' = RunRecord("price_monitoring", JobStatus(err), err, <<>>)
              /\ call' = [call EXCEPT
                            !.next_run = @ + MonitoringInterval,
                            !.windows = Append(@, [from |-> cutoff_date, to |-> now])]
    /\ UNCHANGED <<products, price_history, now, catalog, _scrapers, tx, sessions,
                   email_logs, running, sweep, fetchVars, search>>

NextMonitor ==
    \/ MonitorSave
    \/ MonitorAdvance
    \/ MonitorJob

SpecMonitor == InitMonitor /\ [][NextMonitor]_vars

\* C30: a price_history row recorded after one execution of the monitoring
\* job and before a later one lies inside the window of an execution.
C30_WindowsCoverRows ==
    \A h \in price_history :
        (/\ \E i \in 1..Len(call.windows) : call.windows[i].to < h.recorded_at
         /\ \E j \in 1..Len(call.windows) : h.recorded_at < call.windows[j].to)
        => \E k \in 1..Len(call.windows) :
               /\ call.windows[k].from <= h.recorded_at
               /\ h.recorded_at <= call.windows[k].to

====
